---- MODULE Spec2Model ----
(***************************************************************************)
(* wikipedia-mapper: the concurrent crawl engine (src/src/crawler.rs) and  *)
(* the BFS path finder (src/src/pathfinder.rs) as state machines.          *)
(*                                                                         *)
(*   Spec    one run of Crawler::start_crawl: the task that calls          *)
(*           start_crawl (process 0) and the spawned workers (1..N), one   *)
(*           action per lock acquisition / await point of the code,        *)
(*           and main()'s reads of the crawler after the run.              *)
(*   SpecPF  PathFinder: add_edge calls followed by find_shortest_path.    *)
(*   SpecResume  get_state, save_state, Crawler::new and load_state        *)
(*           (src/src/state.rs, crawler.rs).                               *)
(*   SpecGraph   Graph::add_edge, export_json and PathFinder's             *)
(*           load_from_json (src/src/graph.rs, pathfinder.rs).             *)
(*   SpecFilter  URLFilter: add_custom_rule and is_valid_url               *)
(*           (src/src/crawler.rs, main.rs).                                *)
(*   SpecPR  Analytics: load_from_edges and calculate_pagerank, one turn   *)
(*           of its loop per step, in f64 (src/src/analytics.rs).          *)
(*   SpecFair    Spec with every task of the crawl scheduled fairly.       *)
(*   SpecAPL PathFinder::calculate_average_path_length, one turn of its    *)
(*           loop per step (src/src/pathfinder.rs).                        *)
(*   SpecLocks   the RwLock acquisitions and releases of a crawl, in       *)
(*           program order (src/src/crawler.rs, main.rs).                  *)
(***************************************************************************)
EXTENDS Integers, Sequences, FiniteSets, TLC

VARIABLES
    \* ---- Crawler (crawler.rs:135-141) ----
    queue,      \* SegQueue<(String, usize)>: FIFO sequence of entries
    visited,    \* RwLock<HashSet<String>>
    stats,      \* RwLock<CrawlStats>
    graph,      \* RwLock<GraphExporter>: [nodes, edges]
    \* ---- one task each: 0 = the caller of start_crawl, 1..N = workers ----
    pc,         \* position of each task in start_crawl / process_page
    cur,        \* the entry (url, depth) the task is processing
    new_urls,   \* page_links.new_urls of the page the task fetched
    new_links,  \* the task's new_links vector (crawler.rs:290)
    idx,        \* the task's position in the loop it is in
    local_visited_count,   \* crawler.rs:349
    result,     \* what start_crawl returned ("none" while it runs)
    \* ---- observations of the run (a stub fetcher's log, the delays) ----
    fetches,    \* per URL, the number of fetch_page invocations
    failed,     \* URLs one of whose fetches failed
    refetched,  \* URLs fetched again after one of their fetches failed
    outcome,    \* per task, how its last popped entry ended
    slept,      \* per task, whether the rate-limit delay followed that entry
    successes,  \* per task, the number of its successful fetches
    exit_reason,\* per worker, why it left its loop
    loaded,     \* the Visited Set carried over by load_state
    enumerated, \* the candidate links extract_links has gone through
    \* ---- PathFinder (pathfinder.rs:6-9) ----
    adjacency_list,  \* HashMap<String, Vec<String>>
    n_edges,         \* add_edge calls made so far
    pf_query,        \* the (start, end) of the last find_shortest_path call
    pf_result,       \* its result
    \* ---- saving and resuming (crawler.rs:164-185, state.rs) ----
    state,            \* the CrawlState last returned by get_state or read back
    crawl_state_json, \* the contents of crawl_state.json
    held,             \* the Frontier and Visited Set get_state found
    rs,               \* the position of the save-and-resume scenario
    \* ---- exporting the graph (graph.rs, pathfinder.rs:160-175) ----
    graph_json,       \* the contents of wikipedia_graph.json
    calls,            \* the add_edge calls made on the Graph Store, in order
    gs,               \* the position of the export-and-reload scenario
    \* ---- URLFilter (crawler.rs:58-63) ----
    url_filter,       \* the crawler's filter
    fl_checked,       \* the last is_valid_url call: << url, result >>
    \* ---- Analytics (analytics.rs:16-21) and calculate_pagerank ----
    pr_edges,         \* the edge list handed to load_from_edges
    analytics,        \* [outbound_links, inbound_links]
    pr,               \* scores, iterations and converged of the running call
    prs,              \* the position of the PageRank scenario
    \* ---- PathFinder::calculate_average_path_length (pathfinder.rs:109-157) ----
    apl,              \* the locals of the call, its result and its queries
    \* ---- the RwLocks of the Crawler (crawler.rs:137-140) ----
    at,               \* per task, the lock operation it is at
    locks             \* per lock, its guards and the tasks waiting for one

cvars == <<queue, visited, stats, graph, pc, cur, new_urls, new_links, idx,
           local_visited_count, result, fetches, failed, refetched, outcome,
           slept, successes, exit_reason, loaded, enumerated>>
pfvars == <<adjacency_list, n_edges, pf_query, pf_result>>
rvars == <<state, crawl_state_json, held, rs>>
gvars == <<graph_json, calls, gs>>
fvars == <<url_filter, fl_checked>>
prvars == <<pr_edges, analytics, pr, prs>>
aplvars == <<apl>>
lvars == <<at, locks>>
vars == <<cvars, pfvars, rvars, gvars, fvars, prvars, aplvars, lvars>>

(***************************************************************************)
(* Program constants and the bounds of the model.                          *)
(***************************************************************************)
MAX_DEPTH == 3

\* The pool size (10 in the source) and the per-worker budget (10 in the
\* source), scaled down so that every interleaving can be enumerated.
NUM_CONCURRENT_REQUESTS == 2

MAX_PAGES_PER_WORKER == 1

Main == 0
Workers == 1..NUM_CONCURRENT_REQUESTS
Tasks == {Main} \cup Workers

(***************************************************************************)
(* The corpus the run crawls: what the Fetcher and the HTML parser, both   *)
(* external collaborators, hand to the core.  A URL is a name; UrlInfo     *)
(* gives the parts of the string that URLFilter::is_valid_url reads.       *)
(***************************************************************************)
WikiHost == "en.wikipedia.org"

UrlInfo(u) ==
    CASE u = "T" -> [fragment |-> FALSE, parses |-> TRUE, host |-> WikiHost,
                     path |-> << "/wiki/", "Talk:", "Subject" >>]
      [] u = "F" -> [fragment |-> TRUE, parses |-> TRUE, host |-> WikiHost,
                     path |-> << "/wiki/", "Subject" >>]
      [] OTHER   -> [fragment |-> FALSE, parses |-> TRUE, host |-> WikiHost,
                     path |-> << "/wiki/", u >>]

Pages == {"A", "B", "C", "D"}
URLs == Pages \cup {"T"}
Seed == "A"

\* The anchors of a page's body in document order: the href (already made
\* absolute) and the selectors of extract_links, besides the first, that
\* match the anchor.
Anchors(u) ==
    CASE u = "A" -> << [href |-> "B", scopes |-> {}],
                       [href |-> "B", scopes |-> {}],
                       [href |-> "C", scopes |-> {}],
                       [href |-> "T", scopes |-> {}] >>
      [] u = "B" -> << [href |-> "D", scopes |-> {3}],
                       [href |-> "A", scopes |-> {}] >>
      [] u = "C" -> << [href |-> "D", scopes |-> {}] >>
      [] OTHER   -> << >>

(***************************************************************************)
(* URLFilter (crawler.rs:58-126).  A URL is read through its parts: whether *)
(* the text holds a '#', whether Url::parse accepts it, its host, and its  *)
(* path as the sequence of the pieces of text the filter can tell apart.   *)
(***************************************************************************)
INVALID_PATTERNS ==
    {"Wikipedia:", "Special:", "Talk:", "User:", "File:", "Template:",
     "Help:", "Category:", "Portal:"}

EmptyRules == [name \in {} |-> ""]

\* crawler.rs:65-80
URLFilter_default ==
    [allowed_domains   |-> {WikiHost},
     excluded_patterns |-> INVALID_PATTERNS,
     path_prefixes     |-> {"/wiki/"},
     custom_rules      |-> EmptyRules]

\* crawler.rs:123-125: HashMap::insert under the rule's name.
add_custom_rule(self, name, rule) ==
    [self EXCEPT !.custom_rules =
        [n \in DOMAIN self.custom_rules \cup {name} |->
            IF n = name THEN rule ELSE self.custom_rules[n]]]

\* crawler.rs:102: path.starts_with(prefix)
starts_with(path, prefix) == Len(path) >= 1 /\ path[1] = prefix

\* crawler.rs:108: Regex::is_match is an unanchored search, and each pattern
\* is the namespace text followed by a group that matches the empty text.
is_match(pattern, path) == \E i \in 1..Len(path) : path[i] = pattern

\* The text `piece` occurs in the path right after the text `before`.
Follows(path, before, piece) ==
    \E i \in 1..(Len(path) - 1) : path[i] = before /\ path[i + 1] = piece

\* main.rs:30: str::matches with a &str pattern looks for the pattern as
\* literal text.
YearPatternText == "\\d{4}$"

Months ==
    {"January_", "February_", "March_", "April_", "May_", "June_", "July_",
     "August_", "September_", "October_", "November_", "December_"}

\* The two closures main() registers (main.rs:28-38), each named after the
\* rule it is registered as.
RulePasses(rule, url) ==
    CASE rule = "exclude_years" -> ~Follows(url.path, "/wiki/", YearPatternText)
      [] rule = "exclude_dates" ->
            ~\E month \in Months : Follows(url.path, "/wiki/", month)

\* The filter of the crawler main() runs (main.rs:19-38).
MainFilter ==
    add_custom_rule(
        add_custom_rule(URLFilter_default, "exclude_years", "exclude_years"),
        "exclude_dates", "exclude_dates")

\* is_valid_url without the loop over the excluded patterns.
is_valid_url_unscreened(self, url) ==
    IF url.fragment THEN FALSE
    ELSE IF ~url.parses THEN FALSE
    ELSE IF url.host \notin self.allowed_domains THEN FALSE
    ELSE IF ~\E prefix \in self.path_prefixes : starts_with(url.path, prefix)
    THEN FALSE
    ELSE \A name \in DOMAIN self.custom_rules :
            RulePasses(self.custom_rules[name], url)

\* crawler.rs:83-121
is_valid_url(self, url) ==
    IF url.fragment THEN FALSE
    ELSE IF ~url.parses THEN FALSE
    ELSE IF url.host \notin self.allowed_domains THEN FALSE
    ELSE IF ~\E prefix \in self.path_prefixes : starts_with(url.path, prefix)
    THEN FALSE
    ELSE IF \E pattern \in self.excluded_patterns : is_match(pattern, url.path)
    THEN FALSE
    ELSE \A name \in DOMAIN self.custom_rules :
            RulePasses(self.custom_rules[name], url)

(***************************************************************************)
(* Crawler::extract_links (crawler.rs:199-235): the four selectors in      *)
(* turn, each enumerating the anchors it matches in document order; the    *)
(* first selector matches every /wiki/ anchor.                             *)
(***************************************************************************)
RECURSIVE SelectAnchors(_, _)
SelectAnchors(anchors, sel) ==
    IF anchors = << >> THEN << >>
    ELSE LET a == Head(anchors) IN
         (IF sel = 1 \/ sel \in a.scopes THEN << a.href >> ELSE << >>)
            \o SelectAnchors(Tail(anchors), sel)

Candidates(body) ==
    SelectAnchors(Anchors(body), 1) \o SelectAnchors(Anchors(body), 2)
        \o SelectAnchors(Anchors(body), 3) \o SelectAnchors(Anchors(body), 4)

RECURSIVE FilterValid(_, _)
FilterValid(s, filter) ==
    IF s = << >> THEN << >>
    ELSE (IF is_valid_url(filter, UrlInfo(Head(s))) THEN << Head(s) >>
          ELSE << >>)
            \o FilterValid(Tail(s), filter)

\* The rejected candidates left out of links_ignored.
extract_links_rejects_uncounted(body, filter) ==
    LET c == Candidates(body)
        ok == FilterValid(c, filter)
    IN [links_followed |-> Len(ok), links_ignored |-> 0, new_urls |-> ok]

extract_links(body, filter) ==
    LET c == Candidates(body)
        ok == FilterValid(c, filter)
    IN [links_followed |-> Len(ok),
        links_ignored  |-> Len(c) - Len(ok),
        new_urls       |-> ok]

(***************************************************************************)
(* CrawlStats::new (stats.rs:13-20; start_time, a wall-clock reading no    *)
(* decision depends on, is left out) and GraphExporter (graph.rs:6-24).    *)
(***************************************************************************)
CrawlStats_new == [pages_visited |-> 0, links_followed |-> 0, links_ignored |-> 0]

GraphExporter_new == [nodes |-> {}, edges |-> << >>]

\* add_edge keeping a pair out of the edges when it is already there.
add_edge_dedup(g, from, to) ==
    [nodes |-> g.nodes \cup {from, to},
     edges |-> IF \E i \in 1..Len(g.edges) : g.edges[i] = <<from, to>>
               THEN g.edges ELSE Append(g.edges, <<from, to>>)]

\* graph.rs:20-24
add_edge(g, from, to) ==
    [nodes |-> g.nodes \cup {from, to}, edges |-> Append(g.edges, <<from, to>>)]

Entry(u, d) == [url |-> u, depth |-> d]
NoEntry == [url |-> "none", depth |-> 0]

(***************************************************************************)
(* The persisted crawl state main() hands to Crawler::load_state, when     *)
(* crawl_state.json exists (main.rs:19-24, state.rs:7-29): no file, or the *)
(* file of an earlier run: A and B visited, and in the queue an entry one  *)
(* level too deep, an entry today's filter rejects, and an entry at the    *)
(* maximum depth.                                                          *)
(***************************************************************************)
NoState == [queue |-> << >>, visited |-> {}]

PersistedStates ==
    { NoState,
      [queue |-> << Entry("D", MAX_DEPTH + 1), Entry("T", 1),
                    Entry("C", MAX_DEPTH) >>,
       visited |-> {"A", "B"}] }

NoResult == [kind |-> "none", path |-> << >>]
EmptyMap == [k \in {} |-> << >>]

PFIdle ==
    /\ adjacency_list = EmptyMap
    /\ n_edges = 0
    /\ pf_query = << >>
    /\ pf_result = NoResult

\* No crawl_state.json on disk.
NoFile == [exists |-> FALSE]

RIdle ==
    /\ state = NoState
    /\ crawl_state_json = NoFile
    /\ held = NoState
    /\ rs = "idle"

GIdle ==
    /\ graph_json = NoFile
    /\ calls = << >>
    /\ gs = "idle"

\* No Analytics built, no calculate_pagerank call made.
NoRun ==
    [scores |-> EmptyMap, iterations |-> 0, converged |-> FALSE,
     returned |-> FALSE, passes |-> 0, below |-> FALSE, last |-> EmptyMap]

PRIdle ==
    /\ pr_edges = << >>
    /\ analytics = [outbound_links |-> EmptyMap, inbound_links |-> EmptyMap]
    /\ pr = NoRun
    /\ prs = "idle"

\* No calculate_average_path_length call made.
NoSample ==
    [at |-> "idle", sample_size |-> 0, total_distance |-> 0,
     paths_found |-> 0, attempts |-> 0, result |-> [kind |-> "none"],
     asked |-> 0, found |-> << >>]

APLIdle == apl = NoSample

\* No task: the tasks are numbered from Main up.
NoTask == Main - 1

\* tokio::sync::RwLock::new: no guard out, nobody waiting.
RwLock_new == [writer |-> NoTask, readers |-> {}, queue |-> << >>]

LockNames == {"visited", "stats", "graph", "filter"}

LIdle ==
    /\ at = [p \in Tasks |-> "idle"]
    /\ locks = [l \in LockNames |-> RwLock_new]

\* The filter main() has set up; no call of is_valid_url logged.
FIdle ==
    /\ url_filter = MainFilter
    /\ fl_checked = << >>

\* A crawler whose Frontier is q and whose Visited Set is v, before
\* start_crawl is called.
CrawlerWith(q, v) ==
        /\ queue = q
        /\ visited = v
        /\ loaded = v
        /\ enumerated = 0
        /\ stats = CrawlStats_new
        /\ graph = GraphExporter_new
        /\ pc = [p \in Tasks |-> IF p = Main THEN "start" ELSE "idle"]
        /\ cur = [p \in Tasks |-> NoEntry]
        /\ new_urls = [p \in Tasks |-> << >>]
        /\ new_links = [p \in Tasks |-> << >>]
        /\ idx = [p \in Tasks |-> 0]
        /\ local_visited_count = [p \in Tasks |-> 0]
        /\ result = "none"
        /\ fetches = [u \in URLs |-> 0]
        /\ failed = {}
        /\ refetched = {}
        /\ outcome = [p \in Tasks |-> "none"]
        /\ slept = [p \in Tasks |-> FALSE]
        /\ successes = [p \in Tasks |-> 0]
        /\ exit_reason = [p \in Tasks |-> "none"]

\* main.rs:19-24: Crawler::new(Some(start_url)), then load_state.
CrawlInitFrom(st) == CrawlerWith(<< Entry(Seed, 0) >> \o st.queue, st.visited)

CrawlInit == \E st \in PersistedStates : CrawlInitFrom(st)

Init ==
    CrawlInit /\ PFIdle /\ RIdle /\ GIdle /\ FIdle /\ PRIdle /\ APLIdle /\ LIdle

(***************************************************************************)
(* The decisions of the code, one operator each.                           *)
(***************************************************************************)
\* The depth test off by one: an entry one level too deep passes.
DepthExceeded_lax(depth) == depth > MAX_DEPTH + 1

\* crawler.rs:246
DepthExceeded(depth) == depth > MAX_DEPTH

\* The loop condition off by one: a worker takes one entry too many.
BudgetLeft_inclusive(count) == count <= MAX_PAGES_PER_WORKER

\* crawler.rs:350
BudgetLeft(count) == count < MAX_PAGES_PER_WORKER

\* A fetch that never answers.
FetchOutcomes_never(url) == {}

\* crawler.rs:267: fetch_page answers with a body or with a failure.
FetchOutcomes(url) == {"body", "failure"}

\* The graph write guard (crawler.rs:304) is held by a task from the moment
\* it enters the loop of lines 305-308 until it leaves the block.
GraphWriteHeld == \E q \in Tasks : pc[q] = "pp_graph"

\* process_page returns Ok(()) to its caller: start_crawl goes on to spawn
\* the workers (crawler.rs:338-341); a worker takes the else branch of lines
\* 375-379 (the result is never Err) and reaches the sleep of line 381.
Return(p, how) ==
    /\ outcome' = [outcome EXCEPT ![p] = how]
    /\ IF p = Main
       THEN /\ pc' = [pc EXCEPT ![p] = "spawn"]
            /\ UNCHANGED local_visited_count
       ELSE /\ pc' = [pc EXCEPT ![p] = "sleep"]
            /\ local_visited_count' =
                   [local_visited_count EXCEPT ![p] = @ + 1]

\* The page counted and left out of the Visited Set.
mark_visited_never(v, st, url) ==
    [visited |-> v, stats |-> [st EXCEPT !.pages_visited = @ + 1]]

\* The insert and the count without the contains test of line 278.
mark_visited_recount(v, st, url) ==
    [visited |-> v \cup {url},
     stats   |-> [st EXCEPT !.pages_visited = @ + 1]]

\* crawler.rs:276-283: under the Visited write guard, insert the URL and
\* count it if it is still absent.
mark_visited(v, st, url) ==
    IF url \notin v
    THEN [visited |-> v \cup {url},
          stats   |-> [st EXCEPT !.pages_visited = @ + 1]]
    ELSE [visited |-> v, stats |-> st]

\* Every accepted candidate taken as new.
is_new_always(v, new_url) == TRUE

\* crawler.rs:292-295: one read of the Visited Set for one candidate.
is_new(v, new_url) == new_url \notin v

\* crawler.rs:173-185: under the Visited read guard, pop every entry of the
\* queue into a vector; the CrawlState returned holds the vector and a clone
\* of the Visited Set, and the queue is left empty.
get_state(q, v) ==
    [returned |-> [queue |-> q, visited |-> v], queue |-> << >>]

(***************************************************************************)
(* start_crawl (crawler.rs:321-398).                                       *)
(***************************************************************************)
\* Lines 324-339: reset the stats, pop one entry and process it in place.
Start ==
    /\ pc[Main] = "start"
    /\ UNCHANGED <<pfvars, rvars, gvars, fvars, prvars, aplvars, lvars>>
    /\ stats' = CrawlStats_new
    /\ IF queue # << >>
       THEN /\ cur' = [cur EXCEPT ![Main] = Head(queue)]
            /\ queue' = Tail(queue)
            /\ pc' = [pc EXCEPT ![Main] = "pp_enter"]
       ELSE /\ pc' = [pc EXCEPT ![Main] = "spawn"]
            /\ UNCHANGED <<cur, queue>>
    /\ UNCHANGED <<visited, graph, new_urls, new_links, idx,
                   local_visited_count, result, fetches, failed, refetched,
                   outcome, slept, successes, exit_reason, loaded,
                   enumerated>>

\* Lines 341-387: tokio::spawn of every worker.
Spawn ==
    /\ pc[Main] = "spawn"
    /\ UNCHANGED <<pfvars, rvars, gvars, fvars, prvars, aplvars, lvars>>
    /\ pc' = [p \in Tasks |-> IF p = Main THEN "join" ELSE "loop"]
    /\ UNCHANGED <<queue, visited, stats, graph, cur, new_urls, new_links,
                   idx, local_visited_count, result, fetches, failed,
                   refetched, outcome, slept, successes, exit_reason, loaded,
                   enumerated>>

\* Lines 389-397: join_all, then Ok(()).
Join ==
    /\ pc[Main] = "join"
    /\ UNCHANGED <<pfvars, rvars, gvars, fvars, prvars, aplvars, lvars>>
    /\ \A w \in Workers : pc[w] = "done"
    /\ pc' = [pc EXCEPT ![Main] = "returned"]
    /\ result' = "Ok"
    /\ UNCHANGED <<queue, visited, stats, graph, cur, new_urls, new_links,
                   idx, local_visited_count, fetches, failed, refetched,
                   outcome, slept, successes, exit_reason, loaded,
                   enumerated>>

\* Lines 350-354: the loop condition and the pop.
WorkerPop(w) ==
    /\ pc[w] = "loop"
    /\ UNCHANGED <<pfvars, rvars, gvars, fvars, prvars, aplvars, lvars>>
    /\ IF ~BudgetLeft(local_visited_count[w])
       THEN /\ pc' = [pc EXCEPT ![w] = "done"]
            /\ exit_reason' = [exit_reason EXCEPT ![w] = "budget"]
            /\ UNCHANGED <<queue, cur, outcome, slept>>
       ELSE IF queue = << >>
       THEN /\ pc' = [pc EXCEPT ![w] = "done"]
            /\ exit_reason' = [exit_reason EXCEPT ![w] = "empty"]
            /\ UNCHANGED <<queue, cur, outcome, slept>>
       ELSE /\ cur' = [cur EXCEPT ![w] = Head(queue)]
            /\ queue' = Tail(queue)
            /\ pc' = [pc EXCEPT ![w] = "w_check"]
            /\ outcome' = [outcome EXCEPT ![w] = "none"]
            /\ slept' = [slept EXCEPT ![w] = FALSE]
            /\ UNCHANGED exit_reason
    /\ UNCHANGED <<visited, stats, graph, new_urls, new_links, idx,
                   local_visited_count, result, fetches, failed, refetched,
                   successes, loaded,
                   enumerated>>

\* Lines 356-363: the worker's own look at the Visited Set; `continue` skips
\* both the count and the sleep.
WorkerCheck(w) ==
    /\ pc[w] = "w_check"
    /\ UNCHANGED <<pfvars, rvars, gvars, fvars, prvars, aplvars, lvars>>
    /\ IF cur[w].url \in visited
       THEN /\ pc' = [pc EXCEPT ![w] = "loop"]
            /\ outcome' = [outcome EXCEPT ![w] = "visited"]
       ELSE /\ pc' = [pc EXCEPT ![w] = "pp_enter"]
            /\ UNCHANGED outcome
    /\ UNCHANGED <<queue, visited, stats, graph, cur, new_urls, new_links,
                   idx, local_visited_count, result, fetches, failed,
                   refetched, slept, successes, exit_reason, loaded,
                   enumerated>>

\* Line 381: the rate-limit delay has elapsed.
Sleep(w) ==
    /\ pc[w] = "sleep"
    /\ UNCHANGED <<pfvars, rvars, gvars, fvars, prvars, aplvars, lvars>>
    /\ pc' = [pc EXCEPT ![w] = "loop"]
    /\ slept' = [slept EXCEPT ![w] = TRUE]
    /\ UNCHANGED <<queue, visited, stats, graph, cur, new_urls, new_links,
                   idx, local_visited_count, result, fetches, failed,
                   refetched, outcome, successes, exit_reason, loaded,
                   enumerated>>

(***************************************************************************)
(* process_page (crawler.rs:237-319), run by the caller of start_crawl on  *)
(* the first entry and by every worker on the entries it pops.             *)
(***************************************************************************)
\* Lines 246-267: the depth test, the filter under its read guard, and
\* membership in the Visited Set under the read guard, which is dropped;
\* then fetch_page is called with no lock held.  The depth and the filter
\* are the task's own data: the one shared read is that of the Visited Set.
PPEnter(p) ==
    /\ pc[p] = "pp_enter"
    /\ UNCHANGED <<pfvars, rvars, gvars, fvars, prvars, aplvars, lvars>>
    /\ IF DepthExceeded(cur[p].depth)
       THEN Return(p, "depth") /\ UNCHANGED <<fetches, refetched>>
       ELSE IF ~is_valid_url(url_filter, UrlInfo(cur[p].url))
       THEN Return(p, "filter") /\ UNCHANGED <<fetches, refetched>>
       ELSE IF cur[p].url \in visited
       THEN Return(p, "seen") /\ UNCHANGED <<fetches, refetched>>
       ELSE /\ pc' = [pc EXCEPT ![p] = "fetching"]
            /\ fetches' = [fetches EXCEPT ![cur[p].url] = @ + 1]
            /\ refetched' = IF cur[p].url \in failed
                            THEN refetched \cup {cur[p].url} ELSE refetched
            /\ UNCHANGED <<outcome, local_visited_count>>
    /\ UNCHANGED <<queue, visited, stats, graph, cur, new_urls, new_links,
                   idx, result, failed, slept, successes, exit_reason, loaded,
                   enumerated>>

\* Lines 267-273: the fetch returns; a failure is logged and answered Ok(()).
FetchReturn(p) ==
    /\ pc[p] = "fetching"
    /\ UNCHANGED <<pfvars, rvars, gvars, fvars, prvars, aplvars, lvars>>
    /\ \E r \in FetchOutcomes(cur[p].url) :
          IF r = "failure"
          THEN /\ failed' = failed \cup {cur[p].url}
               /\ Return(p, "failed")
               /\ UNCHANGED successes
          ELSE /\ pc' = [pc EXCEPT ![p] = "pp_mark"]
               /\ successes' = [successes EXCEPT ![p] = @ + 1]
               /\ UNCHANGED <<failed, outcome, local_visited_count>>
    /\ UNCHANGED <<queue, visited, stats, graph, cur, new_urls, new_links,
                   idx, result, fetches, refetched, slept, exit_reason,
                   loaded,
                   enumerated>>

\* Lines 276-287: under the Visited write guard, insert the URL and count it
\* if it is still absent; then extract_links on the body (it reads the body
\* and the filter only).
PPMark(p) ==
    /\ pc[p] = "pp_mark"
    /\ UNCHANGED <<pfvars, rvars, gvars, fvars, prvars, aplvars, lvars>>
    /\ visited' = mark_visited(visited, stats, cur[p].url).visited
    /\ stats' = mark_visited(visited, stats, cur[p].url).stats
    /\ new_urls' = [new_urls EXCEPT ![p] = extract_links(cur[p].url, url_filter).new_urls]
    /\ new_links' = [new_links EXCEPT ![p] = << >>]
    /\ idx' = [idx EXCEPT ![p] = 1]
    /\ pc' = [pc EXCEPT ![p] = "pp_links"]
    /\ enumerated' = enumerated + Len(Candidates(cur[p].url))
    /\ UNCHANGED <<queue, graph, cur, local_visited_count, result, fetches,
                   failed, refetched, outcome, slept, successes, exit_reason,
                   loaded>>

\* Lines 290-304: one read of the Visited Set per accepted candidate; after
\* the last, the graph write guard is taken (and dropped at once when there
\* is no new link).
PPLinks(p) ==
    /\ pc[p] = "pp_links"
    /\ UNCHANGED <<pfvars, rvars, gvars, fvars, prvars, aplvars, lvars>>
    /\ IF idx[p] <= Len(new_urls[p])
       THEN /\ new_links' =
                  [new_links EXCEPT ![p] =
                      IF is_new(visited, new_urls[p][idx[p]])
                      THEN Append(@, new_urls[p][idx[p]]) ELSE @]
            /\ idx' = [idx EXCEPT ![p] = @ + 1]
            /\ UNCHANGED pc
       ELSE /\ ~GraphWriteHeld
            /\ pc' = [pc EXCEPT ![p] =
                        IF new_links[p] = << >> THEN "pp_stats" ELSE "pp_graph"]
            /\ idx' = [idx EXCEPT ![p] = 1]
            /\ UNCHANGED new_links
    /\ UNCHANGED <<queue, visited, stats, graph, cur, new_urls,
                   local_visited_count, result, fetches, failed, refetched,
                   outcome, slept, successes, exit_reason, loaded,
                   enumerated>>

\* Lines 305-309: per new link, the edge and the push; the guard drops
\* after the last.
PPGraph(p) ==
    /\ pc[p] = "pp_graph"
    /\ UNCHANGED <<pfvars, rvars, gvars, fvars, prvars, aplvars, lvars>>
    /\ graph' = add_edge(graph, cur[p].url, new_links[p][idx[p]])
    /\ queue' = Append(queue, Entry(new_links[p][idx[p]], cur[p].depth + 1))
    /\ idx' = [idx EXCEPT ![p] = @ + 1]
    /\ pc' = [pc EXCEPT ![p] =
                IF idx[p] = Len(new_links[p]) THEN "pp_stats" ELSE "pp_graph"]
    /\ UNCHANGED <<visited, stats, cur, new_urls, new_links,
                   local_visited_count, result, fetches, failed, refetched,
                   outcome, slept, successes, exit_reason, loaded,
                   enumerated>>

\* Lines 312-318: the extractor's counts, under the Stats write guard; the
\* function returns and its locals are dropped.
PPStats(p) ==
    /\ pc[p] = "pp_stats"
    /\ UNCHANGED <<pfvars, rvars, gvars, fvars, prvars, aplvars, lvars>>
    /\ stats' = [stats EXCEPT
                   !.links_followed = @ + extract_links(cur[p].url, url_filter).links_followed,
                   !.links_ignored = @ + extract_links(cur[p].url, url_filter).links_ignored]
    /\ new_urls' = [new_urls EXCEPT ![p] = << >>]
    /\ new_links' = [new_links EXCEPT ![p] = << >>]
    /\ idx' = [idx EXCEPT ![p] = 0]
    /\ Return(p, "fetched")
    /\ UNCHANGED <<queue, visited, graph, cur, result, fetches, failed,
                   refetched, slept, successes, exit_reason, loaded,
                   enumerated>>

(***************************************************************************)
(* What main() asks of the crawler once start_crawl has returned           *)
(* (main.rs:43-61).  The files save_state and export_graph write are       *)
(* followed in SpecResume and SpecGraph.                                   *)
(***************************************************************************)
\* crawler.rs:187-190: a clone of the Stats under the read guard
\* (main.rs:44 and main.rs:60).
GetStats ==
    /\ pc[Main] \in {"returned", "exported"}
    /\ pc' = [pc EXCEPT ![Main] =
                IF pc[Main] = "returned" THEN "stats_read" ELSE "finished"]
    /\ UNCHANGED <<queue, visited, stats, graph, cur, new_urls, new_links,
                   idx, local_visited_count, result, fetches, failed,
                   refetched, outcome, slept, successes, exit_reason, loaded,
                   enumerated>>
    /\ UNCHANGED <<pfvars, rvars, gvars, fvars, prvars, aplvars, lvars>>

\* crawler.rs:173-185 (main.rs:51).
GetState ==
    /\ pc[Main] = "stats_read"
    /\ held' = [queue |-> queue, visited |-> visited]
    /\ state' = get_state(queue, visited).returned
    /\ queue' = get_state(queue, visited).queue
    /\ pc' = [pc EXCEPT ![Main] = "state_taken"]
    /\ UNCHANGED <<visited, stats, graph, cur, new_urls, new_links,
                   idx, local_visited_count, result, fetches, failed,
                   refetched, outcome, slept, successes, exit_reason, loaded,
                   enumerated>>
    /\ UNCHANGED <<crawl_state_json, rs>>
    /\ UNCHANGED <<pfvars, gvars, fvars, prvars, aplvars, lvars>>

\* crawler.rs:192-197 (main.rs:55): both exports read the Graph under its
\* read guard.
ExportGraph ==
    /\ pc[Main] = "state_taken"
    /\ pc' = [pc EXCEPT ![Main] = "exported"]
    /\ UNCHANGED <<queue, visited, stats, graph, cur, new_urls, new_links,
                   idx, local_visited_count, result, fetches, failed,
                   refetched, outcome, slept, successes, exit_reason, loaded,
                   enumerated>>
    /\ UNCHANGED <<pfvars, rvars, gvars, fvars, prvars, aplvars, lvars>>

Next ==
    \/ Start
    \/ Spawn
    \/ Join
    \/ \E w \in Workers : WorkerPop(w)
    \/ \E w \in Workers : WorkerCheck(w)
    \/ \E w \in Workers : Sleep(w)
    \/ \E p \in Tasks : PPEnter(p)
    \/ \E p \in Tasks : FetchReturn(p)
    \/ \E p \in Tasks : PPMark(p)
    \/ \E p \in Tasks : PPLinks(p)
    \/ \E p \in Tasks : PPGraph(p)
    \/ \E p \in Tasks : PPStats(p)
    \/ GetStats
    \/ GetState
    \/ ExportGraph

Spec == Init /\ [][Next]_vars

\* The steps of one task: the caller of start_crawl (and, after the return,
\* of the reads of main()) or one spawned worker.
TaskStep(p) ==
    \/ p = Main /\ (Start \/ Spawn \/ Join \/ GetStats \/ GetState \/ ExportGraph)
    \/ p \in Workers /\ (WorkerPop(p) \/ WorkerCheck(p) \/ Sleep(p))
    \/ PPEnter(p) \/ FetchReturn(p) \/ PPMark(p)
    \/ PPLinks(p) \/ PPGraph(p) \/ PPStats(p)

\* The tokio runtime polls every task that can make progress, a fetch
\* answers (the client of utils.rs has a timeout), a sleep elapses, and the
\* RwLock of tokio grants its guards in the order they were asked for.
SpecFair == Spec /\ \A p \in Tasks : WF_vars(TaskStep(p))

(***************************************************************************)
(* PathFinder (pathfinder.rs).  A HashMap is a function on its keys.       *)
(***************************************************************************)
PFNodes == {"A", "B", "C", "D"}

\* The number of add_edge calls a build of the adjacency makes.
MaxEdges == 3

\* HashMap::insert
MapInsert(m, k, v) ==
    [x \in DOMAIN m \cup {k} |-> IF x = k THEN v ELSE m[x]]

\* entry(k).or_insert_with(Vec::new).push(v)
EntryPush(adj, k, v) ==
    MapInsert(adj, k, IF k \in DOMAIN adj THEN Append(adj[k], v) ELSE << v >>)

\* add_edge recording the link in its own direction only.
PathFinder_add_edge_directed(adj, from, to) == EntryPush(adj, from, to)

\* pathfinder.rs:36-48
PathFinder_add_edge(adj, from, to) ==
    EntryPush(EntryPush(adj, from, to), to, from)

\* The path left in the order the walk built it, end first.
Reverse_missing(s) == s

\* pathfinder.rs:68: path.reverse()
Reverse(s) == [i \in 1..Len(s) |-> s[Len(s) + 1 - i]]

Some(v) == [some |-> TRUE, value |-> v]
None == [some |-> FALSE, value |-> << >>]

\* pathfinder.rs:63-66: the walk back from end along came_from.
RECURSIVE WalkBack(_, _, _, _)
WalkBack(came_from, start, current, path) ==
    IF current = start THEN Some(Reverse(path))
    ELSE IF current \notin DOMAIN came_from THEN None
    ELSE WalkBack(came_from, start, came_from[current],
                  Append(path, came_from[current]))

\* The same walk without the contains_key test of lines 56-58.
reconstruct_path_unguarded(came_from, start, end) ==
    WalkBack(came_from, start, end, << end >>)

\* pathfinder.rs:51-70
reconstruct_path(came_from, start, end) ==
    IF end \notin DOMAIN came_from THEN None
    ELSE WalkBack(came_from, start, end, << end >>)

\* pathfinder.rs:99: queue.push_back
Enqueue(q, x) == Append(q, x)

\* pathfinder.rs:95-101: the neighbours of current, in list order.
RECURSIVE VisitNeighbors(_, _, _)
VisitNeighbors(neighbors, current, st) ==
    IF neighbors = << >> THEN st
    ELSE LET next == Head(neighbors) IN
         VisitNeighbors(Tail(neighbors), current,
            IF next \notin st.visited
            THEN [queue     |-> Enqueue(st.queue, next),
                  visited   |-> st.visited \cup {next},
                  came_from |-> MapInsert(st.came_from, next, current)]
            ELSE st)

Ok(path) == [kind |-> "Ok", path |-> path]
Err(why) == [kind |-> "Err", path |-> << >>, why |-> why]

\* pathfinder.rs:88-105: the BFS loop.
RECURSIVE Bfs(_, _, _, _)
Bfs(adj, st, start, end) ==
    IF st.queue = << >> THEN Err("No path found")
    ELSE LET current == Head(st.queue)
             rest == [st EXCEPT !.queue = Tail(st.queue)]
         IN IF current = end
            THEN LET r == reconstruct_path(st.came_from, start, end)
                 IN IF r.some THEN Ok(r.value)
                    ELSE Err("Failed to reconstruct path")
            ELSE IF current \in DOMAIN adj
            THEN Bfs(adj, VisitNeighbors(adj[current], current, rest),
                     start, end)
            ELSE Bfs(adj, rest, start, end)

\* A query from a page to itself answered with the page alone.
find_shortest_path_trivial(adj, start, end) ==
    IF start \notin DOMAIN adj THEN Err("Start page not found")
    ELSE IF end \notin DOMAIN adj THEN Err("End page not found")
    ELSE IF start = end THEN Ok(<< start >>)
    ELSE Bfs(adj, [queue |-> << start >>, visited |-> {start},
                   came_from |-> EmptyMap], start, end)

\* pathfinder.rs:73-106
find_shortest_path(adj, start, end) ==
    IF start \notin DOMAIN adj THEN Err("Start page not found")
    ELSE IF end \notin DOMAIN adj THEN Err("End page not found")
    ELSE Bfs(adj, [queue |-> << start >>, visited |-> {start},
                   came_from |-> EmptyMap], start, end)

\* A caller adds one more edge (load_from_json, pathfinder.rs:166-172).
PFAddEdge ==
    /\ n_edges < MaxEdges
    /\ \E from \in PFNodes, to \in PFNodes :
          adjacency_list' = PathFinder_add_edge(adjacency_list, from, to)
    /\ n_edges' = n_edges + 1
    /\ pf_query' = << >>
    /\ pf_result' = NoResult
    /\ UNCHANGED <<cvars, rvars, gvars, fvars, prvars, aplvars, lvars>>

\* A caller asks for a path (main.rs, the query loop).
PFQuery ==
    /\ \E start \in PFNodes, end \in PFNodes :
          /\ pf_query' = << start, end >>
          /\ pf_result' = find_shortest_path(adjacency_list, start, end)
    /\ UNCHANGED <<adjacency_list, n_edges>>
    /\ UNCHANGED <<cvars, rvars, gvars, fvars, prvars, aplvars, lvars>>

InitPF ==
    CrawlInitFrom(NoState) /\ PFIdle /\ RIdle /\ GIdle /\ FIdle /\ PRIdle
    /\ APLIdle
    /\ LIdle

NextPF == PFAddEdge \/ PFQuery

SpecPF == InitPF /\ [][NextPF]_vars

(***************************************************************************)
(* Saving and resuming (SpecResume): a crawler in any state is asked for   *)
(* its state, the state is written to crawl_state.json, and a crawler      *)
(* loads the file: the crawler that was asked, or the crawler of a new     *)
(* process.                                                                *)
(***************************************************************************)
ResumeURLs == {"A", "B"}

\* The longest Frontier the scenario starts from.
MaxFrontier == 2

ResumeEntries == {Entry(u, d) : u \in ResumeURLs, d \in 0..1}

Frontiers ==
    UNION {[1..n -> ResumeEntries] : n \in 0..MaxFrontier}

\* The orders in which iterating a HashSet can yield its elements.
Orders(S) ==
    {s \in [1..Cardinality(S) -> S] :
        \A i, j \in 1..Cardinality(S) : i # j => s[i] # s[j]}

\* state.rs:14: serde_json::to_string of a CrawlState: the queue as an array
\* of [url, depth] arrays, the set as an array in iteration order.
to_string(st, order) ==
    [exists  |-> TRUE,
     queue   |-> [i \in 1..Len(st.queue) |->
                     << st.queue[i].url, st.queue[i].depth >>],
     visited |-> order]

\* state.rs:26: serde_json::from_reader into a CrawlState.
from_reader(doc) ==
    [queue   |-> [i \in 1..Len(doc.queue) |->
                     Entry(doc.queue[i][1], doc.queue[i][2])],
     visited |-> {doc.visited[i] : i \in 1..Len(doc.visited)}]

\* crawler.rs:144-162
Crawler_new(start_url) ==
    [queue   |-> IF start_url.some THEN << Entry(start_url.value, 0) >>
                 ELSE << >>,
     visited |-> {}]

\* crawler.rs:164-171: every entry of the state is pushed onto the queue,
\* and the Visited Set is replaced.
load_state(q, v, st) == [queue |-> q \o st.queue, visited |-> st.visited]

\* crawler.rs:173-185
RGetState ==
    /\ rs = "live"
    /\ held' = [queue |-> queue, visited |-> visited]
    /\ state' = get_state(queue, visited).returned
    /\ queue' = get_state(queue, visited).queue
    /\ rs' = "taken"
    /\ UNCHANGED <<visited, stats, graph, pc, cur, new_urls, new_links,
                   idx, local_visited_count, result, fetches, failed,
                   refetched, outcome, slept, successes, exit_reason, loaded,
                   enumerated>>
    /\ UNCHANGED crawl_state_json
    /\ UNCHANGED <<pfvars, gvars, fvars, prvars, aplvars, lvars>>

\* state.rs:13-21
RSaveState ==
    /\ rs = "taken"
    /\ \E order \in Orders(state.visited) :
          crawl_state_json' = to_string(state, order)
    /\ rs' = "saved"
    /\ UNCHANGED <<state, held>>
    /\ UNCHANGED <<cvars, pfvars, gvars, fvars, prvars, aplvars, lvars>>

\* A new process builds its crawler: main.rs:19 passes Some(start_url);
\* Crawler::new also takes None.
RNew ==
    /\ rs = "saved"
    /\ \E start_url \in {None, Some(Seed)} :
          /\ queue' = Crawler_new(start_url).queue
          /\ visited' = Crawler_new(start_url).visited
    /\ rs' = "new"
    /\ UNCHANGED <<stats, graph, pc, cur, new_urls, new_links,
                   idx, local_visited_count, result, fetches, failed,
                   refetched, outcome, slept, successes, exit_reason, loaded,
                   enumerated>>
    /\ UNCHANGED <<state, crawl_state_json, held>>
    /\ UNCHANGED <<pfvars, gvars, fvars, prvars, aplvars, lvars>>

\* main.rs:22-24: state::load_state reads the file and Crawler::load_state
\* takes the state it returns.
RLoadState ==
    /\ rs \in {"saved", "new"}
    /\ state' = from_reader(crawl_state_json)
    /\ queue' = load_state(queue, visited, from_reader(crawl_state_json)).queue
    /\ visited' =
           load_state(queue, visited, from_reader(crawl_state_json)).visited
    /\ loaded' = visited'
    /\ rs' = "loaded"
    /\ UNCHANGED <<stats, graph, pc, cur, new_urls, new_links,
                   idx, local_visited_count, result, fetches, failed,
                   refetched, outcome, slept, successes, exit_reason,
                   enumerated>>
    /\ UNCHANGED <<crawl_state_json, held>>
    /\ UNCHANGED <<pfvars, gvars, fvars, prvars, aplvars, lvars>>

InitResume ==
    /\ \E q \in Frontiers, v \in SUBSET ResumeURLs : CrawlerWith(q, v)
    /\ PFIdle
    /\ state = NoState
    /\ crawl_state_json = NoFile
    /\ held = NoState
    /\ rs = "live"
    /\ GIdle
    /\ FIdle
    /\ PRIdle
    /\ APLIdle
    /\ LIdle

NextResume ==
    \/ RGetState
    \/ RSaveState
    \/ RNew
    \/ RLoadState

SpecResume == InitResume /\ [][NextResume]_vars

(***************************************************************************)
(* Exporting the Graph Store and rebuilding a Path Finder from the export  *)
(* (SpecGraph): add_edge calls, export_json, PathFinder::load_from_json.   *)
(***************************************************************************)
GraphNodes == {"A", "B", "C"}

\* graph.rs:53-62: the nodes in the iteration order of the HashSet, the
\* edges as [from, to] arrays in recording order.
export_json(g, order) ==
    [exists |-> TRUE,
     nodes  |-> order,
     edges  |-> [i \in 1..Len(g.edges) |-> << g.edges[i][1], g.edges[i][2] >>]]

\* pathfinder.rs:166-172: one add_edge per element of the "edges" array.
RECURSIVE LoadEdges(_, _)
LoadEdges(adj, edges) ==
    IF edges = << >> THEN adj
    ELSE LoadEdges(PathFinder_add_edge(adj, Head(edges)[1], Head(edges)[2]),
                   Tail(edges))

\* pathfinder.rs:160-175: only the "edges" member of the document is read.
load_from_json(doc) == LoadEdges(EmptyMap, doc.edges)

\* graph.rs:20-24, called with any two URLs.
GAddEdge ==
    /\ gs = "building"
    /\ Len(calls) < MaxEdges
    /\ \E from \in GraphNodes, to \in GraphNodes :
          /\ graph' = add_edge(graph, from, to)
          /\ calls' = Append(calls, << from, to >>)
    /\ UNCHANGED <<graph_json, gs>>
    /\ UNCHANGED <<queue, visited, stats, pc, cur, new_urls, new_links,
                   idx, local_visited_count, result, fetches, failed,
                   refetched, outcome, slept, successes, exit_reason, loaded,
                   enumerated>>
    /\ UNCHANGED <<pfvars, rvars, fvars, prvars, aplvars, lvars>>

\* graph.rs:53-62
GExport ==
    /\ gs = "building"
    /\ \E order \in Orders(graph.nodes) :
          graph_json' = export_json(graph, order)
    /\ gs' = "exported"
    /\ UNCHANGED calls
    /\ UNCHANGED <<cvars, pfvars, rvars, fvars, prvars, aplvars, lvars>>

\* pathfinder.rs:160-175
GLoad ==
    /\ gs = "exported"
    /\ adjacency_list' = load_from_json(graph_json)
    /\ n_edges' = Len(graph_json.edges)
    /\ gs' = "loaded"
    /\ UNCHANGED <<pf_query, pf_result>>
    /\ UNCHANGED <<graph_json, calls>>
    /\ UNCHANGED <<cvars, rvars, fvars, prvars, aplvars, lvars>>

InitGraph ==
    /\ CrawlInitFrom(NoState)
    /\ PFIdle
    /\ RIdle
    /\ graph_json = NoFile
    /\ calls = << >>
    /\ gs = "building"
    /\ FIdle
    /\ PRIdle
    /\ APLIdle
    /\ LIdle

NextGraph ==
    \/ GAddEdge
    \/ GExport
    \/ GLoad

SpecGraph == InitGraph /\ [][NextGraph]_vars

(***************************************************************************)
(* The filter on its own (SpecFilter): rules are registered on a default   *)
(* filter, in any number and order, and URLs are put to is_valid_url.      *)
(***************************************************************************)
FilterHosts == {WikiHost, "fr.wikipedia.org", ""}

FilterPaths ==
    { << "/wiki/", "Subject" >>,
      << "/wiki/", "Talk:", "Subject" >>,
      << "/wiki/", "Subject", "Talk:" >>,
      << "/w/", "Subject" >>,
      << "/w/", "Talk:", "Subject" >>,
      << "/wiki/", "January_", "1" >>,
      << "/wiki/", "1999" >>,
      << "/wiki/", YearPatternText >> }

FilterURLs ==
    [fragment : BOOLEAN, parses : BOOLEAN, host : FilterHosts,
     path : FilterPaths]

RuleNames == {"exclude_years", "exclude_dates"}

\* crawler.rs:400-403, crawler.rs:123-125
FAddRule ==
    /\ \E name \in RuleNames, rule \in RuleNames :
          url_filter' = add_custom_rule(url_filter, name, rule)
    /\ fl_checked' = << >>
    /\ UNCHANGED <<cvars, pfvars, rvars, gvars, prvars, aplvars, lvars>>

\* crawler.rs:83-121
FCheck ==
    /\ \E url \in FilterURLs :
          fl_checked' = << url, is_valid_url(url_filter, url) >>
    /\ UNCHANGED url_filter
    /\ UNCHANGED <<cvars, pfvars, rvars, gvars, prvars, aplvars, lvars>>

InitFilter ==
    /\ CrawlInitFrom(NoState)
    /\ PFIdle
    /\ RIdle
    /\ GIdle
    /\ url_filter = URLFilter_default
    /\ fl_checked = << >>
    /\ PRIdle
    /\ APLIdle
    /\ LIdle

NextFilter ==
    \/ FAddRule
    \/ FCheck

SpecFilter == InitFilter /\ [][NextFilter]_vars

(***************************************************************************)
(* f64 arithmetic, as analytics.rs uses it: IEEE 754 binary64 with         *)
(* round-to-nearest, ties to even.  A value is m * 2^e with m a natural    *)
(* number of exactly MantissaBits bits (or zero); naturals of that size    *)
(* are written in limbs of LimbBits bits, least significant first.  The    *)
(* scores, their sums and their differences stay far from the ends of the  *)
(* exponent range, so no infinity, NaN or subnormal arises from them.      *)
(***************************************************************************)
MantissaBits == 53

LimbBits == 15

Base == 2 ^ LimbBits

RECURSIVE BNorm(_)
BNorm(x) ==
    IF x = << >> THEN << >>
    ELSE IF x[Len(x)] = 0 THEN BNorm(SubSeq(x, 1, Len(x) - 1))
    ELSE x

Limb(x, i) == IF i <= Len(x) THEN x[i] ELSE 0

RECURSIVE AddFrom(_, _, _, _)
AddFrom(x, y, i, carry) ==
    IF i > Len(x) /\ i > Len(y)
    THEN (IF carry = 0 THEN << >> ELSE << carry >>)
    ELSE LET t == Limb(x, i) + Limb(y, i) + carry
         IN << t % Base >> \o AddFrom(x, y, i + 1, t \div Base)

BAdd(x, y) == AddFrom(x, y, 1, 0)

RECURSIVE SubFrom(_, _, _, _)
SubFrom(x, y, i, borrow) ==
    IF i > Len(x) THEN << >>
    ELSE LET t == Limb(x, i) - Limb(y, i) - borrow
         IN IF t < 0 THEN << t + Base >> \o SubFrom(x, y, i + 1, 1)
            ELSE << t >> \o SubFrom(x, y, i + 1, 0)

\* x - y, for x >= y
BSub(x, y) == BNorm(SubFrom(x, y, 1, 0))

RECURSIVE CmpFrom(_, _, _)
CmpFrom(x, y, i) ==
    IF i = 0 THEN 0
    ELSE IF x[i] < y[i] THEN -1
    ELSE IF x[i] > y[i] THEN 1
    ELSE CmpFrom(x, y, i - 1)

\* -1, 0 or 1 as x is less than, equal to or greater than y
BCmp(x, y) ==
    IF Len(x) < Len(y) THEN -1
    ELSE IF Len(x) > Len(y) THEN 1
    ELSE CmpFrom(x, y, Len(x))

RECURSIVE MulFrom(_, _, _, _)
MulFrom(x, k, i, carry) ==
    IF i > Len(x) THEN (IF carry = 0 THEN << >> ELSE << carry >>)
    ELSE LET t == x[i] * k + carry
         IN << t % Base >> \o MulFrom(x, k, i + 1, t \div Base)

\* x * k, for k < Base
BMulSmall(x, k) == BNorm(MulFrom(x, k, 1, 0))

RECURSIVE BMul(_, _)
BMul(x, y) ==
    IF y = << >> THEN << >>
    ELSE BNorm(BAdd(BMulSmall(x, Head(y)), << 0 >> \o BMul(x, Tail(y))))

RECURSIVE DivFrom(_, _, _, _)
DivFrom(x, d, i, r) ==
    IF i = 0 THEN [q |-> << >>, r |-> r]
    ELSE LET t == r * Base + x[i]
             rest == DivFrom(x, d, i - 1, t % d)
         IN [q |-> Append(rest.q, t \div d), r |-> rest.r]

\* the quotient and the remainder of x by d, for 0 < d <= Base
BDivSmall(x, d) ==
    LET qr == DivFrom(x, d, Len(x), 0) IN [q |-> BNorm(qr.q), r |-> qr.r]

Zeros(n) == [i \in 1..n |-> 0]

\* x * 2^n
BShl(x, n) ==
    BNorm(Zeros(n \div LimbBits) \o BMulSmall(x, 2 ^ (n % LimbBits)))

\* x \div 2^n
BShr(x, n) ==
    IF n \div LimbBits >= Len(x) THEN << >>
    ELSE BDivSmall(SubSeq(x, n \div LimbBits + 1, Len(x)),
                   2 ^ (n % LimbBits)).q

RECURSIVE Bits(_)
Bits(k) == IF k = 0 THEN 0 ELSE 1 + Bits(k \div 2)

BitLen(x) ==
    IF x = << >> THEN 0 ELSE LimbBits * (Len(x) - 1) + Bits(x[Len(x)])

BOdd(x) == x # << >> /\ x[1] % 2 = 1

F64(m, e) == [m |-> m, e |-> e]

Zero == F64(<< >>, 0)

\* The f64 nearest to n * 2^e (to a value just above it when `sticky`:
\* the bits a division left out), ties to even.
Round(n, e, sticky) ==
    LET len == BitLen(n) IN
    IF len = 0 THEN Zero
    ELSE IF len <= MantissaBits
    THEN F64(BShl(n, MantissaBits - len), e - (MantissaBits - len))
    ELSE LET k == len - MantissaBits
             q == BShr(n, k)
             rem == BSub(n, BShl(q, k))
             c == BCmp(rem, BShl(<< 1 >>, k - 1))
             up == c > 0 \/ (c = 0 /\ (sticky \/ BOdd(q)))
             m == IF up THEN BAdd(q, << 1 >>) ELSE q
         IN IF BitLen(m) > MantissaBits THEN F64(BShr(m, 1), e + k + 1)
            ELSE F64(m, e + k)

\* a + b, for a, b >= 0
f64_add(a, b) ==
    IF a.m = << >> THEN b
    ELSE IF b.m = << >> THEN a
    ELSE LET hi == IF a.e >= b.e THEN a ELSE b
             lo == IF a.e >= b.e THEN b ELSE a
             d == hi.e - lo.e
         IN IF d > MantissaBits + 2 THEN hi
            ELSE Round(BAdd(BShl(hi.m, d), lo.m), lo.e, FALSE)

\* (a - b).abs(), for a, b >= 0
f64_abs_sub(a, b) ==
    IF a.m = << >> THEN b
    ELSE IF b.m = << >> THEN a
    ELSE LET hi == IF a.e >= b.e THEN a ELSE b
             lo == IF a.e >= b.e THEN b ELSE a
             d == hi.e - lo.e
             x == BShl(hi.m, d)
         IN IF d > MantissaBits + 2 THEN hi
            ELSE IF BCmp(x, lo.m) >= 0 THEN Round(BSub(x, lo.m), lo.e, FALSE)
            ELSE Round(BSub(lo.m, x), lo.e, FALSE)

\* a * b
f64_mul(a, b) ==
    IF a.m = << >> \/ b.m = << >> THEN Zero
    ELSE Round(BMul(a.m, b.m), a.e + b.e, FALSE)

\* a / (n as f64), for a usize 0 < n <= Base
f64_div_usize(a, n) ==
    IF a.m = << >> THEN Zero
    ELSE LET qr == BDivSmall(BShl(a.m, MantissaBits + 2 * LimbBits), n)
         IN Round(qr.q, a.e - (MantissaBits + 2 * LimbBits), qr.r # 0)

\* A comparison that never holds.
f64_lt_never(a, b) == FALSE

\* a < b
f64_lt(a, b) ==
    IF b.m = << >> THEN FALSE
    ELSE IF a.m = << >> THEN TRUE
    ELSE a.e < b.e \/ (a.e = b.e /\ BCmp(a.m, b.m) < 0)

One == F64(<< 0, 0, 0, 128 >>, -52)

(***************************************************************************)
(* Analytics (analytics.rs): PageRank over the recorded edges.             *)
(***************************************************************************)
\* analytics.rs:5: the f64 nearest to 0.85
DAMPING_FACTOR == F64(<< 13107, 26214, 19660, 217 >>, -53)

MAX_ITERATIONS == 100

\* analytics.rs:7: the f64 nearest to 1e-8
CONVERGENCE_THRESHOLD == F64(<< 3130, 17505, 26171, 171 >>, -79)

Analytics_new == [outbound_links |-> EmptyMap, inbound_links |-> EmptyMap]

\* analytics.rs:31-43
RECURSIVE load_from_edges(_, _)
load_from_edges(self, edges) ==
    IF edges = << >> THEN self
    ELSE LET from == Head(edges)[1]
             to == Head(edges)[2]
         IN load_from_edges(
                [outbound_links |-> EntryPush(self.outbound_links, from, to),
                 inbound_links  |-> EntryPush(self.inbound_links, to, from)],
                Tail(edges))

\* The pages in the order of their names, which is the order sort() gives.
PageOrder == << "A", "B", "C" >>

\* analytics.rs:103-113: the keys of both maps, sorted, without repeats.
get_all_pages(self) ==
    SelectSeq(PageOrder,
              LAMBDA page : page \in DOMAIN self.outbound_links
                                      \cup DOMAIN self.inbound_links)

\* Every source taken to have one outbound link.
source_outbound_count_one(self, source) == 1

\* analytics.rs:71-75
source_outbound_count(self, source) ==
    IF source \in DOMAIN self.outbound_links
    THEN Len(self.outbound_links[source]) ELSE 1

\* analytics.rs:69-78: the contributions of the sources, added to the
\* score in the order of the inbound list.
RECURSIVE SumIncoming(_, _, _, _, _)
SumIncoming(self, scores, initial_score, incoming, new_score) ==
    IF incoming = << >> THEN new_score
    ELSE LET source == Head(incoming)
             source_score == IF source \in DOMAIN scores THEN scores[source]
                             ELSE initial_score
         IN SumIncoming(self, scores, initial_score, Tail(incoming),
                f64_add(new_score,
                        f64_div_usize(f64_mul(DAMPING_FACTOR, source_score),
                                      source_outbound_count(self, source))))

\* analytics.rs:65-79
NewScore(self, scores, initial_score, num_pages, page) ==
    SumIncoming(self, scores, initial_score,
                IF page \in DOMAIN self.inbound_links
                THEN self.inbound_links[page] ELSE << >>,
                f64_div_usize(f64_abs_sub(One, DAMPING_FACTOR), num_pages))

\* analytics.rs:64-84: one pass over the pages, in get_all_pages order.
RECURSIVE PassPages(_, _, _, _, _, _)
PassPages(self, scores, initial_score, num_pages, pages, acc) ==
    IF pages = << >> THEN acc
    ELSE LET page == Head(pages)
             new_score == NewScore(self, scores, initial_score, num_pages, page)
             old_score == IF page \in DOMAIN scores THEN scores[page]
                          ELSE initial_score
         IN PassPages(self, scores, initial_score, num_pages, Tail(pages),
                [new_scores |-> MapInsert(acc.new_scores, page, new_score),
                 total_diff |-> f64_add(acc.total_diff,
                                        f64_abs_sub(new_score, old_score))])

\* analytics.rs:46-57: the state of the loop before its first pass.  With
\* no page there is no score to initialise.
Begin(self) ==
    LET pages == get_all_pages(self)
        num_pages == Len(pages)
    IN [NoRun EXCEPT
           !.scores = [page \in {pages[k] : k \in 1..num_pages} |->
                          f64_div_usize(One, num_pages)]]

\* The loop reporting convergence when it runs out of iterations.
Turn_converged_at_cap(self, st) ==
    IF ~(st.iterations < MAX_ITERATIONS)
    THEN [st EXCEPT !.returned = TRUE, !.converged = TRUE]
    ELSE LET pages == get_all_pages(self)
             num_pages == Len(pages)
             initial_score == IF num_pages = 0 THEN Zero
                              ELSE f64_div_usize(One, num_pages)
             pass == PassPages(self, st.scores, initial_score, num_pages,
                               pages, [new_scores |-> EmptyMap,
                                       total_diff |-> Zero])
         IN IF f64_lt(pass.total_diff, CONVERGENCE_THRESHOLD)
            THEN [st EXCEPT !.converged = TRUE, !.returned = TRUE,
                            !.passes = @ + 1, !.below = TRUE,
                            !.last = pass.new_scores]
            ELSE [st EXCEPT !.scores = pass.new_scores,
                            !.iterations = @ + 1, !.passes = @ + 1,
                            !.last = pass.new_scores]

\* analytics.rs:59-94: the loop condition and one turn of the loop; and
\* lines 96-100 when the loop is left.  `passes` counts the passes made,
\* `below` tells whether the change summed by one of them was below the
\* threshold, and `last` is the new_scores of the last pass made.
Turn(self, st) ==
    IF ~(st.iterations < MAX_ITERATIONS) THEN [st EXCEPT !.returned = TRUE]
    ELSE LET pages == get_all_pages(self)
             num_pages == Len(pages)
             initial_score == IF num_pages = 0 THEN Zero
                              ELSE f64_div_usize(One, num_pages)
             pass == PassPages(self, st.scores, initial_score, num_pages,
                               pages, [new_scores |-> EmptyMap,
                                       total_diff |-> Zero])
         IN IF f64_lt(pass.total_diff, CONVERGENCE_THRESHOLD)
            THEN [st EXCEPT !.converged = TRUE, !.returned = TRUE,
                            !.passes = @ + 1, !.below = TRUE,
                            !.last = pass.new_scores]
            ELSE [st EXCEPT !.scores = pass.new_scores,
                            !.iterations = @ + 1, !.passes = @ + 1,
                            !.last = pass.new_scores]

RECURSIVE Loop(_, _)
Loop(self, st) == IF st.returned THEN st ELSE Loop(self, Turn(self, st))

\* analytics.rs:45-101
calculate_pagerank(self) ==
    LET st == Loop(self, Begin(self))
    IN [scores |-> st.scores, iterations |-> st.iterations,
        converged |-> st.converged]

(***************************************************************************)
(* One PageRank computation (SpecPR): an edge list is loaded into a new    *)
(* Analytics and calculate_pagerank runs on it, one turn of its loop per   *)
(* step.                                                                   *)
(***************************************************************************)
\* The longest edge list handed to load_from_edges.
MaxPREdges == 3

PREdgePool ==
    { << "A", "B" >>, << "B", "A" >>, << "B", "C" >>, << "C", "A" >>,
      << "A", "A" >> }

PREdgeLists == UNION {[1..n -> PREdgePool] : n \in 0..MaxPREdges}

\* analytics.rs:31-43
PRLoadFromEdges ==
    /\ prs = "new"
    /\ analytics' = load_from_edges(analytics, pr_edges)
    /\ prs' = "loaded"
    /\ UNCHANGED <<pr_edges, pr>>
    /\ UNCHANGED <<cvars, pfvars, rvars, gvars, fvars, aplvars, lvars>>

\* analytics.rs:46-57
PRBegin ==
    /\ prs = "loaded"
    /\ pr' = Begin(analytics)
    /\ prs' = "running"
    /\ UNCHANGED <<pr_edges, analytics>>
    /\ UNCHANGED <<cvars, pfvars, rvars, gvars, fvars, aplvars, lvars>>

\* analytics.rs:59-100
PRTurn ==
    /\ prs = "running"
    /\ pr' = Turn(analytics, pr)
    /\ prs' = IF pr'.returned THEN "returned" ELSE "running"
    /\ UNCHANGED <<pr_edges, analytics>>
    /\ UNCHANGED <<cvars, pfvars, rvars, gvars, fvars, aplvars, lvars>>

InitPR ==
    /\ CrawlInitFrom(NoState)
    /\ PFIdle
    /\ RIdle
    /\ GIdle
    /\ FIdle
    /\ pr_edges \in PREdgeLists
    /\ analytics = Analytics_new
    /\ pr = NoRun
    /\ prs = "new"
    /\ APLIdle
    /\ LIdle

NextPR ==
    \/ PRLoadFromEdges
    \/ PRBegin
    \/ PRTurn

SpecPR == InitPR /\ [][NextPR]_vars

(***************************************************************************)
(* Average path length (SpecAPL): calculate_average_path_length on an      *)
(* adjacency built by add_edge calls, one turn of its loop per step.       *)
(***************************************************************************)
\* pathfinder.rs:120
MaxSamples == 100

\* pathfinder.rs:131
WantedPaths == 10

\* Every unordered pair of nodes counted twice.
sample_size_ordered(n) ==
    IF MaxSamples <= n * (n - 1) THEN MaxSamples ELSE n * (n - 1)

\* pathfinder.rs:120: 100.min(n * (n - 1) / 2)
sample_size(n) ==
    IF MaxSamples <= (n * (n - 1)) \div 2 THEN MaxSamples
    ELSE (n * (n - 1)) \div 2

\* `as f64` of a usize
usize_as_f64(k) == IF k = 0 THEN Zero ELSE Round(<< k >>, 0, FALSE)

\* pathfinder.rs:110-124: the node count, the early failure, the locals.
APLStart(adj) ==
    LET n == Cardinality(DOMAIN adj) IN
    IF n <= 1
    THEN [NoSample EXCEPT !.at = "returned",
                          !.result = [kind |-> "Err", why |-> "too few nodes"]]
    ELSE [NoSample EXCEPT !.at = "sampling", !.sample_size = sample_size(n)]

\* pathfinder.rs:131
Sampling(st) ==
    st.paths_found < WantedPaths /\ st.attempts < st.sample_size

\* One more path of length hops in the log of the queries.
Found(log, hops) ==
    [h \in DOMAIN log \cup {hops} |->
        IF h \in DOMAIN log
        THEN (IF h = hops THEN log[h] + 1 ELSE log[h]) ELSE 1]

\* pathfinder.rs:133-142: one turn of the loop on the pair (nodes[i],
\* nodes[j]) the shuffle gave.
Sample(adj, st, from, to) ==
    LET r == find_shortest_path(adj, from, to)
        counted == [st EXCEPT !.attempts = @ + 1, !.asked = @ + 1]
    IN IF r.kind = "Ok"
       THEN [counted EXCEPT !.total_distance = @ + (Len(r.path) - 1),
                            !.paths_found = @ + 1,
                            !.found = Found(@, Len(r.path) - 1)]
       ELSE counted

\* pathfinder.rs:145-156
APLFinish(st) ==
    [st EXCEPT
        !.at = "returned",
        !.result =
            IF st.paths_found = 0
            THEN [kind |-> "Err", why |-> "No paths found"]
            ELSE [kind |-> "Ok",
                  value |-> f64_div_usize(usize_as_f64(st.total_distance),
                                          st.paths_found)]]

\* The adjacencies the calls are made on, each the result of add_edge
\* calls: none; one page linked to itself; one link; a chain of six pages;
\* two triangles; six separate links and a triangle (fifteen pages).
APLEdgeLists ==
    { << >>,
      << <<"a", "a">> >>,
      << <<"a", "b">> >>,
      << <<"a", "b">>, <<"b", "c">>, <<"c", "d">>, <<"d", "e">>,
         <<"e", "f">> >>,
      << <<"a", "b">>, <<"b", "c">>, <<"c", "a">>,
         <<"d", "e">>, <<"e", "f">>, <<"f", "d">> >>,
      << <<"a", "b">>, <<"c", "d">>, <<"e", "f">>, <<"g", "h">>,
         <<"i", "j">>, <<"k", "l">>,
         <<"m", "n">>, <<"n", "o">>, <<"o", "m">> >> }

APLBegin ==
    /\ apl.at = "idle"
    /\ apl' = APLStart(adjacency_list)
    /\ UNCHANGED <<cvars, pfvars, rvars, gvars, fvars, prvars, lvars>>

\* indices.shuffle: any two different nodes, in either order.
APLSample ==
    /\ apl.at = "sampling"
    /\ Sampling(apl)
    /\ \E from \in DOMAIN adjacency_list, to \in DOMAIN adjacency_list :
          /\ from # to
          /\ apl' = Sample(adjacency_list, apl, from, to)
    /\ UNCHANGED <<cvars, pfvars, rvars, gvars, fvars, prvars, lvars>>

APLReturn ==
    /\ apl.at = "sampling"
    /\ ~Sampling(apl)
    /\ apl' = APLFinish(apl)
    /\ UNCHANGED <<cvars, pfvars, rvars, gvars, fvars, prvars, lvars>>

InitAPL ==
    /\ CrawlInitFrom(NoState)
    /\ \E edges \in APLEdgeLists :
          /\ adjacency_list = LoadEdges(EmptyMap, edges)
          /\ n_edges = Len(edges)
    /\ pf_query = << >>
    /\ pf_result = NoResult
    /\ RIdle
    /\ GIdle
    /\ FIdle
    /\ PRIdle
    /\ APLIdle
    /\ LIdle

NextAPL ==
    \/ APLBegin
    \/ APLSample
    \/ APLReturn

SpecAPL == InitAPL /\ [][NextAPL]_vars

(***************************************************************************)
(* The locks of a crawl (SpecLocks): the acquisitions and releases of the  *)
(* four RwLocks by main(), start_crawl, the workers and process_page, in   *)
(* program order.  What a task reads under a guard decides only which way  *)
(* it goes next, so every branch is open at every visit.  A tokio RwLock   *)
(* hands out its guards in the order they were asked for: a reader behind  *)
(* a waiting writer waits too.                                             *)
(***************************************************************************)
Compatible(l, mode) ==
    IF mode = "read" THEN l.writer = NoTask
    ELSE l.writer = NoTask /\ l.readers = {}

\* The waiters at the head of the queue whose guard can be handed out get
\* it; `woken` collects them.
RECURSIVE Grant(_, _)
Grant(l, woken) ==
    IF l.queue # << >> /\ Compatible(l, Head(l.queue).mode)
    THEN LET w == Head(l.queue) IN
         Grant([writer  |-> IF w.mode = "write" THEN w.task ELSE l.writer,
                readers |-> IF w.mode = "read" THEN l.readers \cup {w.task}
                            ELSE l.readers,
                queue   |-> Tail(l.queue)],
               woken \cup {w.task})
    ELSE [lock |-> l, woken |-> woken]

\* lock.read().await / lock.write().await
Request(l, p, mode) ==
    Grant([l EXCEPT !.queue = Append(@, [task |-> p, mode |-> mode])], {})

\* A guard dropped with the waiters left asleep.
Drop_no_wake(l, p) ==
    [lock  |-> [l EXCEPT !.writer = IF @ = p THEN NoTask ELSE @,
                         !.readers = @ \ {p}],
     woken |-> {}]

\* The drop of a guard.
Drop(l, p) ==
    Grant([l EXCEPT !.writer = IF @ = p THEN NoTask ELSE @,
                    !.readers = @ \ {p}], {})

Acquire(lock, mode, next) ==
    [op |-> "acquire", lock |-> lock, mode |-> mode, next |-> {next}]
Release(lock, next) ==
    [op |-> "release", lock |-> lock, mode |-> "none", next |-> next]
Goto(next) == [op |-> "step", lock |-> "none", mode |-> "none", next |-> next]

\* The statistics block taking the Visited write guard while it holds the
\* Stats write guard.
update_statistics_nested(l) ==
    CASE l = "pp_stats_acq" -> Acquire("stats", "write", "pp_stats_rel")
      [] l = "pp_stats_rel" -> Acquire("visited", "write", "pp_filter_rel")

\* crawler.rs:311-316
update_statistics(l) ==
    CASE l = "pp_stats_acq" -> Acquire("stats", "write", "pp_stats_rel")
      [] l = "pp_stats_rel" -> Release("stats", {"pp_filter_rel"})

\* crawler.rs:246-319: process_page.
process_page(l) ==
    CASE l = "pp_depth"      -> Goto({"pp_return", "pp_valid_acq"})
      [] l = "pp_valid_acq"  -> Acquire("filter", "read", "pp_valid_rel")
      [] l = "pp_valid_rel"  -> Release("filter", {"pp_return", "pp_seen_acq"})
      [] l = "pp_seen_acq"   -> Acquire("visited", "read", "pp_seen_rel")
      [] l = "pp_seen_rel"   -> Release("visited", {"pp_return", "pp_fetch"})
      [] l = "pp_fetch"      -> Goto({"pp_return", "pp_mark_acq"})
      [] l = "pp_mark_acq"   -> Acquire("visited", "write", "pp_mark")
      [] l = "pp_mark"       -> Goto({"pp_count_acq", "pp_mark_rel"})
      [] l = "pp_count_acq"  -> Acquire("stats", "write", "pp_count_rel")
      [] l = "pp_count_rel"  -> Release("stats", {"pp_mark_rel"})
      [] l = "pp_mark_rel"   -> Release("visited", {"pp_filter_acq"})
      [] l = "pp_filter_acq" -> Acquire("filter", "read", "pp_links")
      [] l = "pp_links"      -> Goto({"pp_is_new_acq", "pp_graph_acq"})
      [] l = "pp_is_new_acq" -> Acquire("visited", "read", "pp_is_new_rel")
      [] l = "pp_is_new_rel" -> Release("visited", {"pp_links"})
      [] l = "pp_graph_acq"  -> Acquire("graph", "write", "pp_graph_rel")
      [] l = "pp_graph_rel"  -> Release("graph", {"pp_stats_acq"})
      [] l \in {"pp_stats_acq", "pp_stats_rel"} -> update_statistics(l)
      [] l = "pp_filter_rel" -> Release("filter", {"pp_return"})

\* main.rs:28-41 and crawler.rs:400-403: the add_custom_url_rule calls of
\* main(), then start_crawl (crawler.rs:324-339) up to the spawn.
start_crawl(l) ==
    CASE l = "main"      -> Goto({"rule_acq", "reset_acq"})
      [] l = "rule_acq"  -> Acquire("filter", "write", "rule_rel")
      [] l = "rule_rel"  -> Release("filter", {"main"})
      [] l = "reset_acq" -> Acquire("stats", "write", "reset_rel")
      [] l = "reset_rel" -> Release("stats", {"pp_depth", "spawn"})

\* crawler.rs:350-382: the loop of a worker.
worker(l) ==
    CASE l = "loop"        -> Goto({"w_check_acq", "done"})
      [] l = "w_check_acq" -> Acquire("visited", "read", "w_check_rel")
      [] l = "w_check_rel" -> Release("visited", {"loop", "pp_depth"})
      [] l = "sleep"       -> Goto({"loop"})

\* What the task p does at l and where it goes from there.
Code(p, l) ==
    CASE l \in {"main", "rule_acq", "rule_rel", "reset_acq", "reset_rel"}
             -> start_crawl(l)
      [] l \in {"loop", "w_check_acq", "w_check_rel", "sleep"} -> worker(l)
      [] l = "pp_return" -> Goto(IF p = Main THEN {"spawn"} ELSE {"sleep"})
      [] l \in {"idle", "spawn", "join", "done", "returned"} -> Goto({})
      [] OTHER -> process_page(l)

Waiting(p) ==
    \E l \in LockNames :
        \E k \in 1..Len(locks[l].queue) : locks[l].queue[k].task = p

\* The tasks a grant has woken go on to what follows their acquisition.
Wake(position, woken) ==
    [q \in Tasks |->
        IF q \in woken
        THEN CHOOSE n \in Code(q, position[q]).next : TRUE
        ELSE position[q]]

LAcquire(p) ==
    /\ Code(p, at[p]).op = "acquire"
    /\ ~Waiting(p)
    /\ LET c == Code(p, at[p])
           r == Request(locks[c.lock], p, c.mode)
       IN /\ locks' = [locks EXCEPT ![c.lock] = r.lock]
          /\ at' = Wake(at, r.woken)
    /\ UNCHANGED <<cvars, pfvars, rvars, gvars, fvars, prvars, aplvars>>

LRelease(p) ==
    /\ Code(p, at[p]).op = "release"
    /\ LET c == Code(p, at[p])
           r == Drop(locks[c.lock], p)
       IN /\ locks' = [locks EXCEPT ![c.lock] = r.lock]
          /\ \E n \in c.next : at' = Wake([at EXCEPT ![p] = n], r.woken)
    /\ UNCHANGED <<cvars, pfvars, rvars, gvars, fvars, prvars, aplvars>>

LStep(p) ==
    /\ Code(p, at[p]).op = "step"
    /\ \E n \in Code(p, at[p]).next : at' = [at EXCEPT ![p] = n]
    /\ UNCHANGED locks
    /\ UNCHANGED <<cvars, pfvars, rvars, gvars, fvars, prvars, aplvars>>

\* crawler.rs:341-387
LSpawn ==
    /\ at[Main] = "spawn"
    /\ at' = [p \in Tasks |-> IF p = Main THEN "join" ELSE "loop"]
    /\ UNCHANGED locks
    /\ UNCHANGED <<cvars, pfvars, rvars, gvars, fvars, prvars, aplvars>>

\* crawler.rs:389-397
LJoin ==
    /\ at[Main] = "join"
    /\ \A w \in Workers : at[w] = "done"
    /\ at' = [at EXCEPT ![Main] = "returned"]
    /\ UNCHANGED locks
    /\ UNCHANGED <<cvars, pfvars, rvars, gvars, fvars, prvars, aplvars>>

InitLocks ==
    /\ CrawlInitFrom(NoState)
    /\ PFIdle
    /\ RIdle
    /\ GIdle
    /\ FIdle
    /\ PRIdle
    /\ APLIdle
    /\ at = [p \in Tasks |-> IF p = Main THEN "main" ELSE "idle"]
    /\ locks = [l \in LockNames |-> RwLock_new]

NextLocks ==
    \/ \E p \in Tasks : LAcquire(p)
    \/ \E p \in Tasks : LRelease(p)
    \/ \E p \in Tasks : LStep(p)
    \/ LSpawn
    \/ LJoin

SpecLocks == InitLocks /\ [][NextLocks]_vars

(***************************************************************************)
(*                       Properties of the crawl (Spec)                    *)
(***************************************************************************)
Attempted == {"failed", "fetched"}

\* The positions of a task that has an entry in hand, from the pop to the
\* return of process_page.
Processing ==
    {"w_check", "pp_enter", "fetching", "pp_mark", "pp_links", "pp_graph",
     "pp_stats"}

\* C1. Exactly-once fetch: in one run of start_crawl the Fetcher is invoked
\* at most once for any URL, whatever the interleaving of the workers.
C1_ExactlyOnceFetch == \A u \in URLs : fetches[u] <= 1

\* C2. Claim-before-fetch: every URL whose fetch has been dispatched (in
\* progress or completed) is already a member of the Visited Set.
C2_ClaimBeforeFetch == \A u \in URLs : fetches[u] > 0 => u \in visited

\* C3. A failed fetch abandons the URL for the run: once a fetch of u has
\* failed, u is in the Visited Set and u is never fetched again.
C3_FailedFetchAbandoned == \A u \in failed : u \in visited /\ u \notin refetched

\* No task is past the discards of process_page with an entry deeper than
\* MAX_DEPTH in hand.
NoFetchBeyondDepth ==
    \A p \in Tasks :
        pc[p] \in {"fetching", "pp_mark", "pp_links", "pp_graph", "pp_stats"}
            => cur[p].depth <= MAX_DEPTH

\* A step a task takes on an entry deeper than MAX_DEPTH changes none of
\* the Visited Set, the Graph, the Frontier and the fetch log.
DiscardStep ==
    \A p \in Tasks :
        (pc[p] \in Processing /\ cur[p].depth > MAX_DEPTH /\ pc'[p] # pc[p])
            => /\ visited' = visited
               /\ graph' = graph
               /\ queue' = queue
               /\ fetches' = fetches

\* C4. Depth bound: no fetch is ever dispatched for an entry whose depth
\* exceeds MAX_DEPTH (entries loaded from a persisted state included), and
\* processing such an entry leaves the Visited Set, the Graph and the
\* Frontier unchanged.
C4_DepthBound == [](NoFetchBeyondDepth) /\ [][DiscardStep]_vars

\* A task has discarded an entry that was too deep.
C4_Witness ==
    \E p \in Tasks : outcome[p] = "depth" /\ cur[p].depth = MAX_DEPTH + 1

\* C5 as stated. Page upper bound: pages_visited never exceeds
\* pool_size * per-worker budget.
C5_PageUpperBound ==
    stats.pages_visited <= NUM_CONCURRENT_REQUESTS * MAX_PAGES_PER_WORKER

\* C5 amended. pages_visited never exceeds pool_size * budget + 1: the one
\* entry start_crawl processes itself before it spawns the workers, plus at
\* most `budget` entries per worker.
C5_PageUpperBoundPlusSeed ==
    stats.pages_visited <= NUM_CONCURRENT_REQUESTS * MAX_PAGES_PER_WORKER + 1

\* The run has ended with pages_visited at pool_size * budget + 1.
C5_Witness ==
    /\ result = "Ok"
    /\ stats.pages_visited = NUM_CONCURRENT_REQUESTS * MAX_PAGES_PER_WORKER + 1

\* C6. The per-worker budget counts successful fetches only: a worker has
\* left its loop only on an empty pop or with exactly MAX_PAGES_PER_WORKER
\* successful fetches of its own.
C6_BudgetCountsSuccesses ==
    \A w \in Workers :
        pc[w] = "done" =>
            \/ exit_reason[w] = "empty"
            \/ successes[w] = MAX_PAGES_PER_WORKER

\* C7. The rate-limit delay follows an entry if and only if a fetch was
\* dispatched for it: a worker is in the delay only after a fetch attempt,
\* and an entry with a fetch attempt has been followed by the delay once
\* the worker is back at its loop.
C7_DelayIffFetch ==
    \A w \in Workers :
        /\ pc[w] = "sleep" => outcome[w] \in Attempted
        /\ (pc[w] \in {"loop", "done"} /\ outcome[w] \in Attempted) => slept[w]

\* C8. A failed fetch never aborts the crawl: a worker whose last entry
\* ended in a failed fetch went on to pop again (so it left its loop only on
\* an empty pop), and start_crawl returns Ok.
C8_FailureDoesNotStopWorker ==
    /\ \A w \in Workers :
          (pc[w] = "done" /\ outcome[w] = "failed") => exit_reason[w] = "empty"
    /\ pc[Main] = "returned" => result = "Ok"

\* A step taken once start_crawl has returned: one of the reads main()
\* makes of the run's results.
PostRunStep == pc[Main] \in {"returned", "stats_read", "state_taken", "exported"}

\* C18. Post-run artifacts are read-only: once all workers have terminated
\* and start_crawl has returned, get_stats, get_state and export_graph
\* leave the Frontier, the Visited Set, the Stats and the Graph unchanged.
C18_PostRunReadOnly ==
    [][PostRunStep => UNCHANGED <<queue, visited, stats, graph>>]_vars

\* A worker that has left its loop did so on an empty pop or on an
\* exhausted budget.
Exited(w) == pc[w] = "done" /\ exit_reason[w] \in {"empty", "budget"}

\* A worker that has left its loop stays out of it.
NoRestart == \A w \in Workers : Exited(w) => Exited(w)'

\* C21. Crawl termination: with every fetch answering and every page
\* holding finitely many links, under fair scheduling every worker
\* eventually exits (on an empty pop or an exhausted budget), no worker is
\* restarted, and start_crawl eventually returns.
C21_CrawlTermination ==
    /\ \A w \in Workers : <>Exited(w)
    /\ [][NoRestart]_vars
    /\ <>(result = "Ok")

\* start_crawl has returned, every worker has exited, one of them on its
\* budget, and the Frontier still holds entries.
C21_Witness ==
    /\ result = "Ok"
    /\ \A w \in Workers : Exited(w)
    /\ \E w \in Workers : exit_reason[w] = "budget"
    /\ queue # << >>

\* C25. Edge sources are visited pages: in every reachable state of a
\* crawl the source URL of every edge recorded in the Graph is a member of
\* the Visited Set.
C25_EdgeSourcesVisited ==
    \A k \in 1..Len(graph.edges) : graph.edges[k][1] \in visited

\* Edges from two different pages are in the Graph.
C25_Witness ==
    \E j, k \in 1..Len(graph.edges) : graph.edges[j][1] # graph.edges[k][1]

\* C26. Edges bounded by followed links: when start_crawl returns, the
\* number of edges recorded in the Graph is at most links_followed, and
\* links_followed + links_ignored is the number of candidate links
\* enumerated over all the successful fetches of the run.
C26_EdgesBoundedByFollowed ==
    result = "Ok" =>
        /\ Len(graph.edges) <= stats.links_followed
        /\ stats.links_followed + stats.links_ignored = enumerated

\* start_crawl has returned from a run that recorded edges, followed more
\* links than it recorded edges and ignored some.
C26_Witness ==
    /\ result = "Ok"
    /\ Len(graph.edges) > 0
    /\ Len(graph.edges) < stats.links_followed
    /\ stats.links_ignored > 0

(***************************************************************************)
(*                   Properties of the Path Finder (SpecPF)                *)
(***************************************************************************)
Neighbors(adj, n) ==
    IF n \in DOMAIN adj THEN {adj[n][i] : i \in 1..Len(adj[n])} ELSE {}

\* The nodes at most k hops from s.
RECURSIVE Within(_, _, _)
Within(adj, s, k) ==
    IF k = 0 THEN {s}
    ELSE LET w == Within(adj, s, k - 1)
         IN w \cup UNION {Neighbors(adj, n) : n \in w}

Connected(adj, s, e) == e \in Within(adj, s, Cardinality(DOMAIN adj))

Asked == pf_result.kind # "none"

\* C9 as stated. find_shortest_path fails exactly when an endpoint is not a
\* key or the endpoints lie in different components; in every other case,
\* start = end included, it returns a path.
C9_FailureConditions ==
    Asked =>
        LET start == pf_query[1]
            end   == pf_query[2]
        IN /\ pf_result.kind \in {"Ok", "Err"}
           /\ pf_result.kind = "Err" <=>
                 \/ start \notin DOMAIN adjacency_list
                 \/ end \notin DOMAIN adjacency_list
                 \/ ~Connected(adjacency_list, start, end)

\* C9 amended. find_shortest_path fails exactly when an endpoint is not a
\* key, the endpoints lie in different components, or start = end; in
\* every other case it returns a path; the result is always Ok or Err.
C9_FailureConditionsSelfFails ==
    Asked =>
        LET start == pf_query[1]
            end   == pf_query[2]
        IN /\ pf_result.kind \in {"Ok", "Err"}
           /\ pf_result.kind = "Err" <=>
                 \/ start \notin DOMAIN adjacency_list
                 \/ end \notin DOMAIN adjacency_list
                 \/ ~Connected(adjacency_list, start, end)
                 \/ start = end

\* A self-query on a key of the adjacency has been answered with a failure.
C9_Witness ==
    /\ Asked
    /\ pf_query[1] = pf_query[2]
    /\ pf_query[1] \in DOMAIN adjacency_list
    /\ pf_result.kind = "Err"

\* C27. Self-query is a failure: for every URL x that is a key of the
\* adjacency, find_shortest_path(x, x) returns a failure and never a path
\* (neither [x] nor any longer sequence).
C27_SelfQueryFails ==
    /\ \A x \in DOMAIN adjacency_list :
          find_shortest_path(adjacency_list, x, x).kind = "Err"
    /\ (Asked /\ pf_query[1] = pf_query[2]
             /\ pf_query[1] \in DOMAIN adjacency_list)
          => pf_result.kind = "Err" /\ pf_result.path = << >>

\* A self-query has been answered with a failure on a page that is linked
\* to itself and to another page.
C27_Witness ==
    /\ Asked
    /\ pf_query[1] = pf_query[2]
    /\ pf_query[1] \in DOMAIN adjacency_list
    /\ \E k \in 1..Len(adjacency_list[pf_query[1]]) :
          adjacency_list[pf_query[1]][k] = pf_query[1]
    /\ \E k \in 1..Len(adjacency_list[pf_query[1]]) :
          adjacency_list[pf_query[1]][k] # pf_query[1]
    /\ pf_result.kind = "Err"

\* C10. A path returned by find_shortest_path begins with start, ends with
\* end, steps only between adjacent URLs, and no path with fewer hops
\* joins start and end.
C10_ShortestPath ==
    pf_result.kind = "Ok" =>
        LET start == pf_query[1]
            end   == pf_query[2]
            path  == pf_result.path
        IN /\ Len(path) >= 1
           /\ path[1] = start
           /\ path[Len(path)] = end
           /\ \A i \in 1..(Len(path) - 1) :
                 path[i + 1] \in Neighbors(adjacency_list, path[i])
           /\ \A k \in 0..(Len(path) - 2) :
                 end \notin Within(adjacency_list, start, k)

\* The chain A-B-C-D has been asked for (A, D) and answered [A, B, C, D].
C10_Witness ==
    /\ pf_query = << "A", "D" >>
    /\ pf_result.kind = "Ok"
    /\ pf_result.path = << "A", "B", "C", "D" >>

(***************************************************************************)
(*                 Properties of saving and resuming (SpecResume)          *)
(***************************************************************************)
\* The number of occurrences of e in the sequence s.
Count(e, s) == Cardinality({i \in 1..Len(s) : s[i] = e})

SameMultiset(s, t) ==
    \A e \in {s[i] : i \in 1..Len(s)} \cup {t[i] : i \in 1..Len(t)} :
        Count(e, s) = Count(e, t)

\* C11. Resume fidelity: after get_state, save_state and load_state on a
\* crawler, the crawler's Frontier holds the same multiset of (url, depth)
\* entries as the Frontier get_state was called on, and its Visited Set
\* equals the Visited Set of that moment.
C11_ResumeFidelity ==
    rs = "loaded" =>
        /\ SameMultiset(queue, held.queue)
        /\ visited = held.visited

(***************************************************************************)
(*                 Properties of the Graph Store (SpecGraph)               *)
(***************************************************************************)
\* The nodes joined to n by an edge of the Graph Store, in either direction.
Linked(g, n) ==
    {g.edges[i][2] : i \in {j \in 1..Len(g.edges) : g.edges[j][1] = n}}
        \cup {g.edges[i][1] : i \in {j \in 1..Len(g.edges) : g.edges[j][2] = n}}

\* The nodes at most k undirected hops from s in the Graph Store.
RECURSIVE Reach(_, _, _)
Reach(g, s, k) ==
    IF k = 0 THEN {s}
    ELSE LET r == Reach(g, s, k - 1)
         IN r \cup UNION {Linked(g, n) : n \in r}

SameComponent(g, a, b) == b \in Reach(g, a, Cardinality(g.nodes))

\* C12. Export/reparse round trip: the Path Finder adjacency rebuilt from
\* the JSON export of a Graph Store has the node set of that Graph Store
\* and joins two nodes exactly when the Graph Store's edges, read as
\* undirected, join them.
C12_ExportRoundTrip ==
    gs = "loaded" =>
        /\ DOMAIN adjacency_list = graph.nodes
        /\ \A a \in graph.nodes, b \in graph.nodes :
              Connected(adjacency_list, a, b) <=> SameComponent(graph, a, b)

\* A Graph Store of three nodes in two components has been exported and
\* reloaded.
C12_Witness ==
    /\ gs = "loaded"
    /\ graph.nodes = {"A", "B", "C"}
    /\ Connected(adjacency_list, "B", "A")
    /\ ~Connected(adjacency_list, "A", "C")

\* C17. Graph Store invariant: after any sequence of add_edge calls, both
\* endpoints of every recorded edge are nodes, every node is an endpoint of
\* a recorded edge, and the edge sequence is the sequence of the calls, one
\* entry per call in call order, repeated pairs kept.
C17_GraphStoreInvariant ==
    /\ \A i \in 1..Len(graph.edges) :
          graph.edges[i][1] \in graph.nodes /\ graph.edges[i][2] \in graph.nodes
    /\ \A n \in graph.nodes :
          \E i \in 1..Len(calls) : n = calls[i][1] \/ n = calls[i][2]
    /\ graph.edges = calls

\* The same pair has been recorded twice, with another pair in between.
C17_Witness ==
    /\ Len(calls) = 3
    /\ calls[1] = calls[3]
    /\ calls[1] # calls[2]
    /\ graph.edges = calls

(***************************************************************************)
(*               Properties of process_page's bookkeeping (Spec)           *)
(***************************************************************************)
\* Task p checks its next accepted candidate against the Visited Set: the
\* candidate joins the task's new links exactly when it is absent, and
\* nothing is recorded yet.
CheckStep(p) ==
    (pc[p] = "pp_links" /\ idx[p] <= Len(new_urls[p]) /\ idx'[p] # idx[p])
        => /\ new_links'[p] =
                 IF new_urls[p][idx[p]] \in visited THEN new_links[p]
                 ELSE Append(new_links[p], new_urls[p][idx[p]])
           /\ graph' = graph
           /\ queue' = queue

\* Task p records its next new link: one edge from the page to the link at
\* the end of the edge sequence, one entry one level deeper at the end of
\* the Frontier; it leaves the recording only after the last new link.
RecordStep(p) ==
    (pc[p] = "pp_graph" /\ idx'[p] # idx[p])
        => LET link == new_links[p][idx[p]] IN
           /\ graph'.edges = Append(graph.edges, << cur[p].url, link >>)
           /\ queue' = Append(queue, Entry(link, cur[p].depth + 1))
           /\ idx'[p] = idx[p] + 1
           /\ pc'[p] = "pp_stats" <=> idx[p] = Len(new_links[p])

\* A task goes from the checks straight to the statistics only with no new
\* link, and starts the recording at its first new link.
AfterChecks(p) ==
    (pc[p] = "pp_links" /\ pc'[p] # "pp_links")
        => /\ idx[p] = Len(new_urls[p]) + 1
           /\ pc'[p] = "pp_stats" <=> new_links[p] = << >>
           /\ pc'[p] = "pp_graph" => idx'[p] = 1
           /\ new_links'[p] = new_links[p]

\* Edges are appended and entries pushed by the recording steps only.
OnlyRecording ==
    (graph'.edges # graph.edges \/ Len(queue') > Len(queue))
        => \E p \in Tasks : pc[p] = "pp_graph" /\ idx'[p] # idx[p]

\* C19. Link recording: for each accepted candidate of a fetched page
\* (url, depth) that is not in the Visited Set when it is checked, exactly
\* one edge (url -> candidate) is appended to the Graph and exactly one
\* entry (candidate, depth + 1) is pushed onto the Frontier; a candidate
\* found in the Visited Set produces neither.
C19_LinkRecording ==
    [][/\ \A p \in Tasks : CheckStep(p) /\ RecordStep(p) /\ AfterChecks(p)
       /\ OnlyRecording]_vars

\* A task has recorded page B: of its candidates D, A, D it skipped the
\* visited A and recorded D twice, as edges B -> D and entries one level
\* deeper than B.
C19_Witness ==
    \E p \in Tasks :
        /\ pc[p] = "pp_stats"
        /\ cur[p].url = "B"
        /\ new_urls[p] = << "D", "A", "D" >>
        /\ new_links[p] = << "D", "D" >>
        /\ Count(<< "B", "D" >>, graph.edges) >= 2
        /\ Count(Entry("D", cur[p].depth + 1), queue) >= 1

\* C20. pages_visited tracks the insertions into the Visited Set: in every
\* state (the insert and the count are one critical section) pages_visited
\* is the size of the Visited Set minus the size of the set carried over
\* from the loaded state, so that a URL already present is never counted
\* again.
C20_PagesVisitedTracksInsertions ==
    /\ loaded \subseteq visited
    /\ stats.pages_visited = Cardinality(visited) - Cardinality(loaded)

\* Two tasks have fetched the same URL and both are past the insert: it was
\* inserted and counted by the first of them only.
C20_Witness ==
    \E p \in Tasks, q \in Tasks :
        /\ p # q
        /\ cur[p].url = cur[q].url
        /\ pc[p] \in {"pp_links", "pp_graph", "pp_stats"}
        /\ pc[q] \in {"pp_links", "pp_graph", "pp_stats"}
        /\ stats.pages_visited = Cardinality(visited)

(***************************************************************************)
(*                   Properties of the filter (SpecFilter)                 *)
(***************************************************************************)
\* A URL with an allowed host and an allowed prefix whose path names a page
\* of the Talk: namespace, and the same URL without the namespace.
IsTalkPage(url) ==
    /\ ~url.fragment
    /\ url.parses
    /\ url.host \in url_filter.allowed_domains
    /\ url.path = << "/wiki/", "Talk:", "Subject" >>

IsPlainPage(url) ==
    /\ ~url.fragment
    /\ url.parses
    /\ url.host \in url_filter.allowed_domains
    /\ url.path = << "/wiki/", "Subject" >>

\* C16. Filter conjunction: is_valid_url answers true if and only if the
\* URL has no fragment marker, parses, has an allowed host, has a path that
\* starts with an allowed prefix and matches no excluded pattern, and
\* passes every registered custom rule; a Talk: page on an allowed host
\* and prefix is rejected, and the same page without the namespace is
\* accepted when no custom rule is registered.
C16_FilterConjunction ==
    fl_checked # << >> =>
        LET url == fl_checked[1]
            answer == fl_checked[2]
        IN /\ answer <=>
                 /\ ~url.fragment
                 /\ url.parses
                 /\ url.host \in url_filter.allowed_domains
                 /\ \E prefix \in url_filter.path_prefixes :
                       starts_with(url.path, prefix)
                 /\ \A pattern \in url_filter.excluded_patterns :
                       ~is_match(pattern, url.path)
                 /\ \A name \in DOMAIN url_filter.custom_rules :
                       RulePasses(url_filter.custom_rules[name], url)
           /\ IsTalkPage(url) => ~answer
           /\ (IsPlainPage(url) /\ DOMAIN url_filter.custom_rules = {})
                 => answer

\* The Talk: page of an allowed host and prefix has been put to a filter
\* with both of main()'s rules registered, and rejected.
C16_Witness ==
    /\ fl_checked # << >>
    /\ IsTalkPage(fl_checked[1])
    /\ DOMAIN url_filter.custom_rules = RuleNames
    /\ fl_checked[2] = FALSE

(***************************************************************************)
(*                     Properties of PageRank (SpecPR)                     *)
(***************************************************************************)
\* The orderings of the edge list s.
Reorderings(s) ==
    {[i \in 1..Len(s) |-> s[o[i]]] : o \in Orders(1..Len(s))}

Results == [scores |-> pr.scores, iterations |-> pr.iterations,
            converged |-> pr.converged]

\* C13. PageRank determinism over the edge multiset: a calculate_pagerank
\* run on the same edges, loaded in the same or in any other order, returns
\* the same scores, the same iteration count and the same converged flag.
C13_PageRankDeterminism ==
    prs = "returned" =>
        \A edges \in Reorderings(pr_edges) :
            calculate_pagerank(load_from_edges(Analytics_new, edges)) = Results

\* The pages of the loaded edges.
PagesOf(edges) ==
    {edges[i][1] : i \in 1..Len(edges)} \cup {edges[i][2] : i \in 1..Len(edges)}

\* The edges are those of one directed cycle through all their pages, each
\* once.
IsCycle(edges) ==
    /\ Len(edges) >= 1
    /\ Cardinality(PagesOf(edges)) = Len(edges)
    /\ \E o \in Orders(PagesOf(edges)) :
          {edges[i] : i \in 1..Len(edges)} =
              {<< o[i], o[(i % Len(o)) + 1] >> : i \in 1..Len(o)}

\* C14. PageRank symmetry: on the edges A -> B, B -> A, and on any single
\* directed cycle over N pages, calculate_pagerank returns converged = true
\* and the score 1/N for every page.
C14_PageRankSymmetry ==
    (prs = "returned" /\ IsCycle(pr_edges)) =>
        /\ pr.converged
        /\ DOMAIN pr.scores = PagesOf(pr_edges)
        /\ \A page \in DOMAIN pr.scores :
              pr.scores[page] = f64_div_usize(One, Len(pr_edges))

\* The call has returned on the cycle A -> B -> C -> A.
C14_Witness ==
    /\ prs = "returned"
    /\ pr_edges = << << "A", "B" >>, << "B", "C" >>, << "C", "A" >> >>
    /\ pr.converged
    /\ pr.scores["C"] = f64_div_usize(One, 3)

StoppingRule ==
    /\ pr.passes <= MAX_ITERATIONS
    /\ pr.iterations <= MAX_ITERATIONS
    /\ prs = "running" => ~pr.below
    /\ prs = "returned" =>
          /\ pr.converged <=> pr.below
          /\ ~pr.converged => pr.iterations = MAX_ITERATIONS

\* Every turn of the loop either returns or is one more pass.
Progress ==
    prs = "running" =>
        \/ prs' = "returned"
        \/ prs' = "running" /\ pr'.passes = pr.passes + 1

\* C15. PageRank stopping rule: calculate_pagerank always terminates (every
\* turn of its loop returns or is one more pass, and no call makes more
\* than MAX_ITERATIONS passes); it returns converged = true exactly when
\* the changes summed by one of its passes were below the threshold, and
\* otherwise it stops after MAX_ITERATIONS passes with converged = false;
\* the iteration count it reports never exceeds MAX_ITERATIONS and equals
\* it when converged is false.
C15_StoppingRule == [](StoppingRule) /\ [][Progress]_vars

\* A call has returned after MAX_ITERATIONS passes without converging.
C15_Witness ==
    /\ prs = "returned"
    /\ ~pr.converged
    /\ pr.passes = MAX_ITERATIONS
    /\ pr.iterations = MAX_ITERATIONS

(***************************************************************************)
(*              Properties of the average path length (SpecAPL)            *)
(***************************************************************************)
NodeCount == Cardinality(DOMAIN adjacency_list)

PairCount == (NodeCount * (NodeCount - 1)) \div 2

\* The number of successful queries and the sum of their hop counts, from
\* the log of the queries.
RECURSIVE LogSum(_, _, _)
LogSum(log, S, weighted) ==
    IF S = {} THEN 0
    ELSE LET h == CHOOSE x \in S : TRUE
         IN (IF weighted THEN h * log[h] ELSE log[h])
            + LogSum(log, S \ {h}, weighted)

Succeeded == LogSum(apl.found, DOMAIN apl.found, FALSE)

HopsTotal == LogSum(apl.found, DOMAIN apl.found, TRUE)

SamplingBounds ==
    /\ apl.asked <= (IF PairCount < 100 THEN PairCount ELSE 100)
    /\ Succeeded <= 10
    /\ (apl.at = "returned" /\ NodeCount >= 2 /\ Succeeded >= 1)
          => /\ apl.result.kind = "Ok"
             /\ apl.result.value =
                   f64_div_usize(usize_as_f64(HopsTotal), Succeeded)
    /\ (apl.at = "returned" /\ NodeCount >= 2 /\ Succeeded = 0)
          => apl.result.kind = "Err"
    /\ NodeCount < 2
          => /\ apl.asked = 0
             /\ apl.at = "returned" => apl.result.kind = "Err"

\* No query follows the tenth success.
StopsAtTen == Succeeded = 10 => apl.asked' = apl.asked

\* C22. Average path length sampling bounds: for a graph with n >= 2 nodes
\* calculate_average_path_length makes at most min(100, n(n-1)/2) path
\* queries, stops as soon as 10 have succeeded, returns the mean hop count
\* of the successful queries when at least one succeeded and a failure when
\* none did; with fewer than two nodes it fails without making any query.
C22_SamplingBounds == [](SamplingBounds) /\ [][StopsAtTen]_vars

\* A call has returned a mean after ten successes with attempts to spare.
C22_Witness ==
    /\ apl.at = "returned"
    /\ apl.result.kind = "Ok"
    /\ Succeeded = 10
    /\ apl.asked < apl.sample_size

(***************************************************************************)
(*             Properties of the PageRank output (SpecPR, continued)       *)
(***************************************************************************)
\* The distinct pages that are an endpoint of an edge of the list loaded.
Endpoints == {pr_edges[k][1] : k \in 1..Len(pr_edges)}
                 \cup {pr_edges[k][2] : k \in 1..Len(pr_edges)}

\* C23. PageRank output reflects the last pass: the iteration count
\* returned equals the number of score-update passes executed (the pass on
\* which convergence was detected included), and the score mapping returned
\* is the one the last executed pass computed, with exactly one entry per
\* distinct edge endpoint.
C23_OutputReflectsLastPass ==
    prs = "returned" =>
        /\ pr.iterations = pr.passes
        /\ pr.scores = pr.last
        /\ DOMAIN pr.scores = Endpoints

(***************************************************************************)
(*                  Properties of the locks (SpecLocks)                    *)
(***************************************************************************)
\* The tasks p waits for: those with a guard of the lock it asked for and
\* those ahead of it in the queue of that lock.
Blockers(p) ==
    UNION { IF \E k \in 1..Len(locks[l].queue) : locks[l].queue[k].task = p
            THEN (locks[l].readers \cup {locks[l].writer}
                    \cup {locks[l].queue[j].task : j \in
                             {i \in 1..Len(locks[l].queue) :
                                 \A k \in 1..i : locks[l].queue[k].task # p}})
                 \ {NoTask}
            ELSE {} : l \in LockNames }

\* A set of tasks each of which waits for a lock, with nobody outside the
\* set to wait for.
Deadlocked(S) == S # {} /\ \A p \in S : Waiting(p) /\ Blockers(p) \subseteq S

\* C24. No crawl deadlock: in every interleaving of the acquisitions of the
\* Visited, Stats, Graph and Filter locks (the Stats write lock taken under
\* the Visited write lock and the Filter read lock held across the later
\* acquisitions included), no reachable state has a set of tasks each
\* waiting forever for a lock held by another; until start_crawl has
\* returned some task can take a step.
C24_NoCrawlDeadlock ==
    /\ \A S \in SUBSET Tasks : ~Deadlocked(S)
    /\ at[Main] # "returned" => ENABLED NextLocks

\* A worker holding the Visited write guard waits for the Stats write
\* guard, which another worker holds under its Filter read guard.
C24_Witness ==
    \E p \in Workers, q \in Workers :
        /\ p # q
        /\ locks["visited"].writer = p
        /\ at[p] = "pp_count_acq" /\ Waiting(p)
        /\ locks["stats"].writer = q
        /\ q \in locks["filter"].readers

\* The least exponent among the f64 values of S.
RECURSIVE MinExp(_, _)
MinExp(S, e) ==
    IF S = {} THEN e
    ELSE LET x == CHOOSE y \in S : TRUE
         IN MinExp(S \ {x}, IF x.e < e THEN x.e ELSE e)

\* x as a whole number of units of 2^e, for e no greater than its exponent.
Units(x, e) == BShl(x.m, x.e - e)

\* The sum of the scores of the pages of P, as a whole number of units of
\* 2^e: the sum itself, with no rounding.
RECURSIVE Mass(_, _, _)
Mass(scores, P, e) ==
    IF P = {} THEN << >>
    ELSE LET page == CHOOSE q \in P : TRUE
         IN BAdd(Units(scores[page], e), Mass(scores, P \ {page}, e))

\* The exponent all the quantities of the mass bound are written in.
MassExp ==
    MinExp({pr.last[page] : page \in DOMAIN pr.last}
               \cup {One, CONVERGENCE_THRESHOLD}, 0)

LastMass == Mass(pr.last, DOMAIN pr.last, MassExp)

\* The sum of the scores of the last pass against 1: -1, 0 or 1.
MassAgainstOne == BCmp(LastMass, Units(One, MassExp))

\* The sum of the scores of the last pass exceeds 1 by less than the
\* convergence threshold, or does not exceed it.
MassAtMostOneRounded ==
    BCmp(LastMass,
         BAdd(Units(One, MassExp), Units(CONVERGENCE_THRESHOLD, MassExp))) < 0

\* The sum falls short of 1 by less than the convergence threshold, or
\* does not fall short of it.
MassAtLeastOneRounded ==
    BCmp(BAdd(LastMass, Units(CONVERGENCE_THRESHOLD, MassExp)),
         Units(One, MassExp)) > 0

\* Every page of the list loaded has an outbound edge.
NoDanglingPage == Endpoints \subseteq DOMAIN analytics.outbound_links

\* No page without an outbound edge is among the sources any score is
\* summed over, and a page with no inbound edge has the base term as its
\* score.
DanglingGiveNothing ==
    /\ \A page \in DOMAIN analytics.inbound_links :
          \A k \in 1..Len(analytics.inbound_links[page]) :
              analytics.inbound_links[page][k]
                  \in DOMAIN analytics.outbound_links
    /\ \A page \in DOMAIN pr.last :
          page \notin DOMAIN analytics.inbound_links =>
              pr.last[page] =
                  f64_div_usize(f64_abs_sub(One, DAMPING_FACTOR),
                                Cardinality(DOMAIN pr.last))

\* C28 as stated. PageRank mass bound: after every update pass the sum of
\* all page scores is at most 1, and it equals 1 after every pass when
\* every page has at least one outbound edge; pages with no outbound edges
\* contribute nothing to any other page's score beyond the base term
\* (1-d)/N.
C28_MassBound ==
    (pr.passes >= 1 /\ Endpoints # {}) =>
        /\ MassAgainstOne <= 0
        /\ NoDanglingPage => MassAgainstOne = 0
        /\ DanglingGiveNothing

\* C28 amended. After every update pass the sum of all page scores is at
\* most 1, and equal to 1 when every page has at least one outbound edge,
\* up to the rounding of the f64 operations (a difference below the
\* convergence threshold); pages with no outbound edges contribute nothing
\* to any other page's score beyond the base term (1-d)/N.
C28_MassBoundRounded ==
    (pr.passes >= 1 /\ Endpoints # {}) =>
        /\ MassAtMostOneRounded
        /\ NoDanglingPage => MassAtLeastOneRounded
        /\ DanglingGiveNothing

\* After a second pass over three pages that all have an outbound edge the
\* scores sum to more than 1.
C28_Witness ==
    /\ pr.passes >= 2
    /\ Cardinality(Endpoints) = 3
    /\ NoDanglingPage
    /\ MassAgainstOne > 0

====
